---- MODULE Spec2Model ----
(***************************************************************************)
(* A model of the chat-analyser pipeline:                                  *)
(*   format parsers -> chat merger -> identity resolver -> metrics ->      *)
(*   hierarchical aggregator,                                              *)
(* together with the pure helpers (date parsing, name normalisation) the   *)
(* pipeline is built from.                                                 *)
(*                                                                         *)
(* Strings are sequences of one-character strings, so that normalisation,  *)
(* case folding, substring tests, sorting and joining are computed, not    *)
(* assumed.  JavaScript Sets and Maps iterate in insertion order: they are *)
(* modelled as duplicate-free sequences.  Timestamps are Date.getTime()    *)
(* values in milliseconds, counted from local midnight of 1 January 2024   *)
(* instead of 1970.                                                        *)
(***************************************************************************)
EXTENDS Integers, Sequences, FiniteSets, TLC

VARIABLES
    dateIn,          \* parseDateParts: the arguments of the call
    dateOut,         \* parseDateParts: <<the resolved parts>>, or <<>> before the call
    files,           \* processMultipleChats: the raw input files, in filePaths order
    pc,              \* position of the pipeline
    fileIdx,         \* processMultipleChats: index of the next file to parse
    parsedChats,     \* processMultipleChats: chats parsed so far
    parseErrors,     \* processMultipleChats: indices of the files whose parser threw
    relatedGroups,   \* processMultipleChats: result of findRelatedChats
    mergedChats,     \* processMultipleChats: its return value
    rl,              \* normaliseParticipantNames: the readline interface and its answers
    nameMappings,    \* normaliseParticipantNames: the mappings applied
    normalisedChats, \* normaliseParticipantNames: its return value
    analysis,        \* computeHierarchicalAnalysis: its return value
    mChat,           \* computeMetrics: the chat being measured
    mOpts,           \* computeMetrics: the timing options
    mIdx,            \* computeMetrics: index of the next message of the loop
    mAcc,            \* computeMetrics: the running aggregates
    metrics,         \* computeMetrics: <<its return value>>, or <<>> before it returns
    timezoneOffsetMs, \* the environment: Date.getTimezoneOffset(), in milliseconds
    emojiIn,         \* countEmojis: the text of the last call, as grapheme clusters
    emojiOut,        \* countEmojis: <<its return value>>, or <<>> before any call
    lastIndex,       \* EMOJI_REGEX.lastIndex
    phoneOwnerName,  \* the monolith: <<the owner name typed>>, or <<>> when not asked
    ownerQuestions,  \* the monolith: how often the owner name was asked for
    waLines,         \* parseWhatsApp: lines, the export split at its line breaks
    waLineIdx,       \* parseWhatsApp: index of the next line of the loop
    waMessages,      \* parseWhatsApp: messages, those pushed so far
    waCurrentMessage \* parseWhatsApp: <<currentMessage>>, or <<>> for null

dateVars == <<dateIn, dateOut>>
ownerVars == <<phoneOwnerName, ownerQuestions>>
lineVars == <<waLines, waLineIdx, waMessages, waCurrentMessage>>
pipeVars == <<files, pc, fileIdx, parsedChats, parseErrors, relatedGroups,
              mergedChats, rl, nameMappings, normalisedChats, analysis,
              ownerVars>>
emojiVars == <<emojiIn, emojiOut, lastIndex>>
metricVars == <<mChat, mOpts, mIdx, mAcc, metrics, timezoneOffsetMs, emojiVars>>
vars == <<dateIn, dateOut, files, pc, fileIdx, parsedChats, parseErrors,
          relatedGroups, mergedChats, rl, nameMappings, normalisedChats,
          analysis, mChat, mOpts, mIdx, mAcc, metrics, timezoneOffsetMs,
          emojiIn, emojiOut, lastIndex, phoneOwnerName, ownerQuestions,
          waLines, waLineIdx, waMessages, waCurrentMessage>>

\* undefined, for a field that otherwise holds a string
Undefined == <<"<undefined>">>
\* undefined, for the optional seconds of a timestamp
NoSecond == -1
\* JavaScript truthiness of an optional string: neither undefined nor ""
Truthy(s) == s # Undefined /\ s # <<>>

----------------------------------------------------------------------------
(* Characters and strings *)

LowerAlpha == <<"a","b","c","d","e","f","g","h","i","j","k","l","m",
                "n","o","p","q","r","s","t","u","v","w","x","y","z">>
UpperAlpha == <<"A","B","C","D","E","F","G","H","I","J","K","L","M",
                "N","O","P","Q","R","S","T","U","V","W","X","Y","Z">>

\* U+00A0, which normaliseParticipantName treats as a space
NBSP == "<nbsp>"
\* one emoji grapheme cluster (two UTF-16 code units)
EMOJI == "<emoji>"

IsLower(c) == \E i \in 1..26 : LowerAlpha[i] = c
IsUpper(c) == \E i \in 1..26 : UpperAlpha[i] = c
IsLetter(c) == IsLower(c) \/ IsUpper(c)
AlphaIndex(c) == CHOOSE i \in 1..26 : LowerAlpha[i] = c \/ UpperAlpha[i] = c

\* String.prototype.toLowerCase, per character
LowerChar(c) == IF IsUpper(c) THEN LowerAlpha[AlphaIndex(c)] ELSE c
UpperChar(c) == IF IsLower(c) THEN UpperAlpha[AlphaIndex(c)] ELSE c
toLowerCase(s) == [i \in 1..Len(s) |-> LowerChar(s[i])]
toUpperCase(s) == [i \in 1..Len(s) |-> UpperChar(s[i])]

\* the UTF-16 code unit Array.prototype.sort compares strings by
CharCode(c) ==
    IF IsUpper(c) THEN 64 + AlphaIndex(c)
    ELSE IF IsLower(c) THEN 96 + AlphaIndex(c)
    ELSE CASE c = " " -> 32
           [] c = "!" -> 33
           [] c = "." -> 46
           [] c = "/" -> 47
           [] c = ":" -> 58
           [] c = "?" -> 63
           [] c = "|" -> 124
           [] c = NBSP -> 160
           [] OTHER -> 55357

RECURSIVE StrLess(_, _)
\* a < b for JavaScript strings (code-unit lexicographic order)
StrLess(a, b) ==
    IF b = <<>> THEN FALSE
    ELSE IF a = <<>> THEN TRUE
    ELSE IF CharCode(Head(a)) # CharCode(Head(b))
         THEN CharCode(Head(a)) < CharCode(Head(b))
         ELSE StrLess(Tail(a), Tail(b))

\* \s of a JavaScript regular expression, within the alphabet
IsSpace(c) == c \in {" ", NBSP, "\n"}

RECURSIVE TrimStart(_)
TrimStart(s) == IF s # <<>> /\ IsSpace(Head(s)) THEN TrimStart(Tail(s)) ELSE s
RECURSIVE TrimEnd(_)
TrimEnd(s) ==
    IF s # <<>> /\ IsSpace(s[Len(s)]) THEN TrimEnd(SubSeq(s, 1, Len(s) - 1)) ELSE s
\* String.prototype.trim
Trim(s) == TrimEnd(TrimStart(s))

\* String.prototype.includes
Includes(s, sub) ==
    \E i \in 0..(Len(s) - Len(sub)) : SubSeq(s, i + 1, i + Len(sub)) = sub

RECURSIVE SplitOn(_, _, _)
\* String.prototype.split(sep) for a one-character separator; cur is the piece
\* being read
SplitOn(s, sep, cur) ==
    IF s = <<>> THEN <<cur>>
    ELSE IF Head(s) = sep THEN <<cur>> \o SplitOn(Tail(s), sep, <<>>)
    ELSE SplitOn(Tail(s), sep, Append(cur, Head(s)))
Split(s, sep) == SplitOn(s, sep, <<>>)

RECURSIVE Join(_, _)
\* Array.prototype.join(sep)
Join(strs, sep) ==
    IF strs = <<>> THEN <<>>
    ELSE IF Len(strs) = 1 THEN strs[1]
    ELSE strs[1] \o sep \o Join(Tail(strs), sep)

RECURSIVE CollapseSpaces(_)
\* .replace(/\s+/g, ' ')
CollapseSpaces(s) ==
    IF s = <<>> THEN <<>>
    ELSE IF IsSpace(Head(s))
         THEN <<" ">> \o CollapseSpaces(TrimStart(s))
         ELSE <<Head(s)>> \o CollapseSpaces(Tail(s))

\* text.utils normaliseParticipantName
normaliseParticipantName(name) ==
    Trim(CollapseSpaces([i \in 1..Len(name) |->
                            IF name[i] = NBSP THEN " " ELSE name[i]]))

RECURSIVE InsertSorted(_, _)
InsertSorted(sorted, x) ==
    IF sorted = <<>> THEN <<x>>
    ELSE IF StrLess(x, Head(sorted)) THEN <<x>> \o sorted
    ELSE <<Head(sorted)>> \o InsertSorted(Tail(sorted), x)
RECURSIVE SortStrings(_)
\* Array.prototype.sort() with the default comparator, on strings
SortStrings(strs) ==
    IF strs = <<>> THEN <<>>
    ELSE InsertSorted(SortStrings(SubSeq(strs, 1, Len(strs) - 1)), strs[Len(strs)])

\* elements of a sequence
Range(s) == {s[i] : i \in 1..Len(s)}
\* Set.prototype.add on an insertion-ordered set
SetAdd(s, x) == IF x \in Range(s) THEN s ELSE Append(s, x)
RECURSIVE SetAddAll(_, _)
SetAddAll(s, xs) == IF xs = <<>> THEN s ELSE SetAddAll(SetAdd(s, Head(xs)), Tail(xs))
\* new Set(array)
ToSet(xs) == SetAddAll(<<>>, xs)

RECURSIVE Sum(_)
Sum(xs) == IF xs = <<>> THEN 0 ELSE Head(xs) + Sum(Tail(xs))

----------------------------------------------------------------------------
(* date.utils: parseDateParts *)

\* days from 1970-01-01 to the civil date y-m-d (m in 1..12, any d)
DaysFromCivil(y, m, d) ==
    LET yy  == IF m <= 2 THEN y - 1 ELSE y
        era == yy \div 400
        yoe == yy - era * 400
        mp  == (m + 9) % 12
        doy == (153 * mp + 2) \div 5 + d - 1
        doe == yoe * 365 + yoe \div 4 - yoe \div 100 + doy
    IN  era * 146097 + doe - 719468

\* new Date(year, month, day, hours, minutes, seconds, 0).getTime(), in local
\* time and counted from 2024-01-01T00:00: an out-of-range month, day or hour
\* carries into the next unit
NewDate(p) ==
    LET y == p.year + (p.month \div 12)
        m == (p.month % 12) + 1
        days == DaysFromCivil(y, m, 1) + (p.day - 1) - DaysFromCivil(2024, 1, 1)
    IN  (((days * 24 + p.hour) * 60 + p.minute) * 60 + p.second) * 1000

\* the body of parseDateParts, for either value of its preferDDMM flag:
\* the arguments of the Date it constructs (month is 0-indexed)
ResolveDateParts(dayOrMonth, monthOrDay, year, hour, minute, second, ampm, preferDDMM) ==
    LET fullYear == IF year < 100 THEN 2000 + year ELSE year
        firstIsDay == dayOrMonth > 12
        secondIsDay == ~firstIsDay /\ monthOrDay > 12 /\ dayOrMonth <= 12
        day == IF firstIsDay THEN dayOrMonth
               ELSE IF secondIsDay THEN monthOrDay
               ELSE IF preferDDMM THEN dayOrMonth ELSE monthOrDay
        month == IF firstIsDay THEN monthOrDay - 1
                 ELSE IF secondIsDay THEN dayOrMonth - 1
                 ELSE IF preferDDMM THEN monthOrDay - 1 ELSE dayOrMonth - 1
        ampmUpper == toUpperCase(ampm)
        h1 == IF Truthy(ampm) /\ ampmUpper = <<"P","M">> /\ hour < 12
              THEN hour + 12 ELSE hour
        hour24 == IF Truthy(ampm) /\ ampmUpper = <<"A","M">> /\ h1 = 12
                  THEN 0 ELSE h1
        seconds == IF second = NoSecond THEN 0 ELSE second
    IN  [year |-> fullYear, month |-> month, day |-> day,
         hour |-> hour24, minute |-> minute, second |-> seconds]

\* parseDateParts with the ambiguous case read as MM/DD
parseDatePartsMMDD(dayOrMonth, monthOrDay, year, hour, minute, second, ampm) ==
    ResolveDateParts(dayOrMonth, monthOrDay, year, hour, minute, second, ampm, FALSE)

parseDateParts(dayOrMonth, monthOrDay, year, hour, minute, second, ampm) ==
    ResolveDateParts(dayOrMonth, monthOrDay, year, hour, minute, second, ampm, TRUE)

----------------------------------------------------------------------------
(* Values of the variables a specification does not use *)

DateIdle == dateIn = <<>> /\ dateOut = <<>>
\* the owner of the phone has not been asked for
OwnerIdle == phoneOwnerName = <<>> /\ ownerQuestions = 0
\* no export is being read line by line
LinesIdle ==
    /\ waLines = <<>> /\ waLineIdx = 0 /\ waMessages = <<>>
    /\ waCurrentMessage = <<>>
PipeIdle ==
    /\ OwnerIdle
    /\ files = <<>> /\ pc = "idle" /\ fileIdx = 0 /\ parsedChats = <<>>
    /\ parseErrors = {} /\ relatedGroups = <<>> /\ mergedChats = <<>>
    /\ rl = <<>> /\ nameMappings = <<>> /\ normalisedChats = <<>>
    /\ analysis = <<>>
\* no text counted yet, the regular expression as the module created it
EmojiIdle == emojiIn = <<>> /\ emojiOut = <<>> /\ lastIndex = 0
MetricsIdle ==
    /\ mChat = <<>> /\ mOpts = <<>> /\ mIdx = 0 /\ mAcc = <<>> /\ metrics = <<>>
    /\ timezoneOffsetMs = 0
    /\ EmojiIdle

----------------------------------------------------------------------------
(* SpecDate: parseDateParts applied to the fields a timestamp prefix yields *)

\* the two ambiguous fields range over 1..MaxDateField
MaxDateField == 14

DateInputs ==
    [dayOrMonth : 1..MaxDateField, monthOrDay : 1..MaxDateField,
     year : {24, 2024}, hour : {9, 12}, minute : {5},
     second : {NoSecond, 30},
     ampm : {Undefined, <<"A","M">>, <<"p","m">>}]

InitDate ==
    /\ dateIn \in DateInputs
    /\ dateOut = <<>>
    /\ LinesIdle
    /\ PipeIdle
    /\ MetricsIdle

CallParseDateParts ==
    /\ dateOut = <<>>
    /\ dateOut' = <<parseDateParts(dateIn.dayOrMonth, dateIn.monthOrDay,
                                   dateIn.year, dateIn.hour, dateIn.minute,
                                   dateIn.second, dateIn.ampm)>>
    /\ UNCHANGED <<dateIn, lineVars, pipeVars, metricVars>>

NextDate == CallParseDateParts

SpecDate == InitDate /\ [][NextDate]_vars

Max(a, b) == IF a >= b THEN a ELSE b
Min(a, b) == IF a <= b THEN a ELSE b

\* C10 (as stated): both fields <= 12 give day = first, month = second; if
\* either exceeds 12 the larger field is the day and the other the month.
C10_LargerIsDay ==
    dateOut # <<>> =>
        LET a == dateIn.dayOrMonth
            b == dateIn.monthOrDay
            r == dateOut[1]
        IN  /\ (a <= 12 /\ b <= 12) => (r.day = a /\ r.month + 1 = b)
            /\ (a > 12 \/ b > 12) => (r.day = Max(a, b) /\ r.month + 1 = Min(a, b))

\* C10 (amended): both fields <= 12 give day = first, month = second; if
\* exactly one field exceeds 12 that field is the day and the other the month,
\* whichever position it is in; if both exceed 12 the first field is the day
\* and the second the month.
C10_DateHeuristic ==
    dateOut # <<>> =>
        LET a == dateIn.dayOrMonth
            b == dateIn.monthOrDay
            r == dateOut[1]
        IN  /\ (a <= 12 /\ b <= 12) => (r.day = a /\ r.month + 1 = b)
            /\ (a > 12 /\ b <= 12) => (r.day = a /\ r.month + 1 = b)
            /\ (a <= 12 /\ b > 12) => (r.day = b /\ r.month + 1 = a)
            /\ (a > 12 /\ b > 12) => (r.day = a /\ r.month + 1 = b)

\* C10 witness: the call has resolved a date whose second field exceeds 12
C10_Witness ==
    /\ dateOut # <<>>
    /\ dateIn.dayOrMonth = 4 /\ dateIn.monthOrDay = 13
    /\ dateOut[1].day = 13 /\ dateOut[1].month = 3

----------------------------------------------------------------------------
(* text.utils: control marks and media notices *)

\* U+200E, one of the direction marks of CONTROL_MARKS_REGEX
LRM == "<lrm>"
\* U+2068 and U+2069, the isolates that wrap a mention; control marks too
FSI == "<fsi>"
PDI == "<pdi>"
IsControlMark(c) == c \in {LRM, FSI, PDI}

RECURSIVE stripControlMarks(_)
\* stripControlMarks: text.replace(CONTROL_MARKS_REGEX, "")
stripControlMarks(text) ==
    IF text = <<>> THEN <<>>
    ELSE (IF IsControlMark(Head(text)) THEN <<>> ELSE <<Head(text)>>)
         \o stripControlMarks(Tail(text))

\* String.prototype.indexOf for one character, 0-based, -1 when absent
IndexOfChar(s, c) ==
    IF \E i \in 1..Len(s) : s[i] = c
    THEN (CHOOSE i \in 1..Len(s) : s[i] = c /\ \A j \in 1..(i - 1) : s[j] # c) - 1
    ELSE -1

\* s.slice(from) and s.slice(0, to), 0-based
SliceFrom(s, from) == SubSeq(s, from + 1, Len(s))
SliceTo(s, to) == SubSeq(s, 1, to)

MediaKinds == <<"image", "video", "audio", "sticker", "document", "gif", "media">>
MediaPhrase(kind) ==
    CASE kind = "image"    -> <<"i","m","a","g","e"," ","o","m","i","t","t","e","d">>
      [] kind = "video"    -> <<"v","i","d","e","o"," ","o","m","i","t","t","e","d">>
      [] kind = "audio"    -> <<"a","u","d","i","o"," ","o","m","i","t","t","e","d">>
      [] kind = "sticker"  -> <<"s","t","i","c","k","e","r"," ","o","m","i","t","t","e","d">>
      [] kind = "document" -> <<"d","o","c","u","m","e","n","t"," ","o","m","i","t","t","e","d">>
      [] kind = "gif"      -> <<"g","i","f"," ","o","m","i","t","t","e","d">>
      [] kind = "media"    -> <<"m","e","d","i","a"," ","o","m","i","t","t","e","d">>

\* getMediaType: the media kind a text names, or "null".  The exact forms
\* ("image omitted", "<image omitted>") are special cases of the substring
\* tests that follow them, in the same order of kinds.
getMediaType(text) ==
    LET normalizedText == toLowerCase(Trim(stripControlMarks(text)))
        hits == {i \in 1..Len(MediaKinds) :
                    Includes(normalizedText, MediaPhrase(MediaKinds[i]))}
        exact == {i \in 1..Len(MediaKinds) :
                    \/ normalizedText = MediaPhrase(MediaKinds[i])
                    \/ normalizedText = <<"<">> \o MediaPhrase(MediaKinds[i]) \o <<">">>}
    IN  IF exact # {} THEN MediaKinds[CHOOSE i \in exact : \A j \in exact : i <= j]
        ELSE IF hits # {} THEN MediaKinds[CHOOSE i \in hits : \A j \in hits : i <= j]
        ELSE "null"

isMediaNotice(text) == getMediaType(text) # "null"

----------------------------------------------------------------------------
(* parsers: the canonical message and chat *)

\* wall-clock time of the run, new Date() (20 days after the model's epoch)
WallClock == 1728000000

Message(ts, sender, text, isSystem, isMedia, mediaType, platform) ==
    [timestamp |-> ts, from |-> sender, text |-> text, isSystem |-> isSystem,
     isMediaNotice |-> isMedia,
     mediaType |-> IF mediaType = "null" THEN "undefined" ELSE mediaType,
     platform |-> platform]

ParsedChat(messages, participants, platform, title) ==
    [messages |-> messages, participants |-> participants,
     platform |-> platform, title |-> title]

RECURSIVE InsertByTimestamp(_, _)
InsertByTimestamp(sorted, m) ==
    IF sorted = <<>> THEN <<m>>
    ELSE IF m.timestamp < Head(sorted).timestamp THEN <<m>> \o sorted
    ELSE <<Head(sorted)>> \o InsertByTimestamp(Tail(sorted), m)
RECURSIVE SortByTimestamp(_)
\* messages.sort((a, b) => a.timestamp.getTime() - b.timestamp.getTime()):
\* ascending and stable
SortByTimestamp(msgs) ==
    IF msgs = <<>> THEN <<>>
    ELSE InsertByTimestamp(SortByTimestamp(SubSeq(msgs, 1, Len(msgs) - 1)),
                           msgs[Len(msgs)])

----------------------------------------------------------------------------
(* whatsapp.parser: parseWhatsApp *)

StartsWith(s, p) == Len(p) <= Len(s) /\ SubSeq(s, 1, Len(p)) = p

RECURSIVE MatchesInOrder(_, _)
\* a regular expression made of literal parts joined by ".*", tested anywhere
\* in a one-line text
MatchesInOrder(s, parts) ==
    IF parts = <<>> THEN TRUE
    ELSE \E i \in 0..(Len(s) - Len(Head(parts))) :
            /\ SubSeq(s, i + 1, i + Len(Head(parts))) = Head(parts)
            /\ MatchesInOrder(SliceFrom(s, i + Len(Head(parts))), Tail(parts))

\* the systemPatterns of parseWhatsApp; "(voice|video)" is written out
SystemPatterns == <<
    <<<<"c","h","a","n","g","e","d"," ","t","h","e"," ","g","r","o","u","p"," ","n","a","m","e"," ","t","o">>>>,
    <<<<"c","h","a","n","g","e","d"," ","t","h","i","s"," ","g","r","o","u","p","'","s"," ","i","c","o","n">>>>,
    <<<<"c","h","a","n","g","e","d"," ","t","h","e"," ","s","u","b","j","e","c","t">>>>,
    <<<<"a","d","d","e","d"," ">>, <<" ","t","o"," ","t","h","e"," ","g","r","o","u","p">>>>,
    <<<<"a","d","d","e","d"," ">>>>,
    <<<<"l","e","f","t"," ","t","h","e"," ","g","r","o","u","p">>>>,
    <<<<"r","e","m","o","v","e","d"," ">>, <<" ","f","r","o","m"," ","t","h","e"," ","g","r","o","u","p">>>>,
    <<<<"c","r","e","a","t","e","d"," ","a"," ","p","o","l","l">>>>,
    <<<<"t","h","i","s"," ","m","e","s","s","a","g","e"," ","w","a","s"," ","d","e","l","e","t","e","d">>>>,
    <<<<"m","i","s","s","e","d"," ","v","o","i","c","e"," ","c","a","l","l">>>>,
    <<<<"m","i","s","s","e","d"," ","v","i","d","e","o"," ","c","a","l","l">>>>,
    <<<<"v","o","i","c","e"," ","c","a","l","l">>>>,
    <<<<"v","i","d","e","o"," ","c","a","l","l">>>>,
    <<<<"y","o","u"," ","a","d","d","e","d"," ">>>>,
    <<<<"y","o","u"," ","r","e","m","o","v","e","d"," ">>>>,
    <<<<"y","o","u"," ","l","e","f","t">>>>,
    <<<<"y","o","u"," ","j","o","i","n","e","d">>>>,
    <<<<"s","e","c","u","r","i","t","y"," ","c","o","d","e"," ","c","h","a","n","g","e","d">>>>,
    <<<<"m","e","s","s","a","g","e","s"," ","a","n","d"," ","c","a","l","l","s"," ","a","r","e"," ","e","n","d","-","t","o","-","e","n","d"," ","e","n","c","r","y","p","t","e","d">>>>,
    <<<<"y","o","u"," ","c","r","e","a","t","e","d"," ","g","r","o","u","p">>>>,
    <<<<"o","n","l","y"," ","m","e","s","s","a","g","e","s"," ","t","h","a","t"," ","m","e","n","t","i","o","n">>>>,
    <<<<"y","o","u"," ","c","h","a","n","g","e","d"," ","t","h","e"," ","s","e","t","t","i","n","g","s">>>>,
    <<<<"y","o","u"," ","p","i","n","n","e","d"," ","a"," ","m","e","s","s","a","g","e">>>> >>

\* /^[^:]+:\s*[^:]+:\s*/ : two colons, each preceded by at least one other
\* character
hasEditionPattern(messageText) ==
    LET i == IndexOfChar(messageText, ":")
        rest == SliceFrom(messageText, i + 1)
        j == IndexOfChar(rest, ":")
    IN  i >= 1 /\ j >= 1

WhatsAppSystemPrefixes == <<
    <<"m","e","s","s","a","g","e","s"," ","a","n","d"," ","c","a","l","l","s"," ","a","r","e"," ","e","n","d","-","t","o","-","e","n","d"," ","e","n","c","r","y","p","t","e","d">>,
    <<"y","o","u"," ","c","r","e","a","t","e","d"," ","g","r","o","u","p">>, <<"y","o","u"," ","a","d","d","e","d">>, <<"y","o","u"," ","c","h","a","n","g","e","d">>, <<"y","o","u"," ","l","e","f","t">>,
    <<"y","o","u"," ","j","o","i","n","e","d">>, <<"o","n","l","y"," ","m","e","s","s","a","g","e","s"," ","t","h","a","t"," ","m","e","n","t","i","o","n">>,
    <<"y","o","u"," ","c","h","a","n","g","e","d"," ","t","h","e"," ","s","e","t","t","i","n","g","s">>, <<"y","o","u"," ","p","i","n","n","e","d"," ","a"," ","m","e","s","s","a","g","e">> >>

hasWhatsAppSystemPattern(messageText) ==
    \E k \in 1..Len(WhatsAppSystemPrefixes) :
        StartsWith(toLowerCase(messageText), WhatsAppSystemPrefixes[k])

isSystemMessage(messageText) ==
    \/ \E k \in 1..Len(SystemPatterns) :
            MatchesInOrder(toLowerCase(messageText), SystemPatterns[k])
    \/ hasEditionPattern(messageText)
    \/ hasWhatsAppSystemPattern(messageText)

\* /image omitted|this message was deleted|missed (voice|video) call|(voice|video) call/i
hasSystemPattern(line) ==
    \E p \in {<<"i","m","a","g","e"," ","o","m","i","t","t","e","d">>, <<"t","h","i","s"," ","m","e","s","s","a","g","e"," ","w","a","s"," ","d","e","l","e","t","e","d">>,
              <<"v","o","i","c","e"," ","c","a","l","l">>, <<"v","i","d","e","o"," ","c","a","l","l">>} :
        Includes(toLowerCase(line), p)

\* A line of the export, as DATE_PREFIXES reads it: marks is the run of
\* control marks the line starts with, stamp the fields of the timestamp
\* prefix that follows them (<<>> when there is none) and rest the text after
\* the prefix.
WaLine(marks, stamp, rest) == [marks |-> marks, stamp |-> stamp, rest |-> rest]

StampDate(st) ==
    NewDate(parseDateParts(st.dayOrMonth, st.monthOrDay, st.year, st.hour,
                           st.minute, st.second, st.ampm))

\* the branch of a line that matches a date prefix
WaDatedMessage(line) ==
    LET messageContent == line.rest
        colonIndex == IndexOfChar(messageContent, ":")
        sender0 == normaliseParticipantName(Trim(SliceTo(messageContent, colonIndex)))
        text0 == Trim(SliceFrom(messageContent, colonIndex + 1))
        demote == colonIndex > -1 /\ isSystemMessage(text0)
                    /\ getMediaType(text0) = "null"
        sender == IF colonIndex > -1 /\ ~demote THEN sender0 ELSE Undefined
        messageText == stripControlMarks(
                          IF colonIndex > -1 /\ ~demote THEN text0
                          ELSE Trim(messageContent))
        mediaType == getMediaType(messageText)
    IN  Message(StampDate(line.stamp[1]), sender, messageText,
                sender = Undefined /\ mediaType = "null",
                isMediaNotice(messageText), mediaType, "whatsapp")

\* the branch of a line without a date prefix that starts a message all the same
WaMarkedMessage(line) ==
    LET stripped == stripControlMarks(line.rest)
        timestamp == IF line.stamp # <<>> THEN StampDate(line.stamp[1]) ELSE WallClock
        clean0 == IF line.stamp # <<>> THEN Trim(stripped) ELSE stripped
        mediaType == getMediaType(clean0)
        isMediaMessage == mediaType # "null"
        colonIndex == IndexOfChar(clean0, ":")
        split == isMediaMessage /\ colonIndex > -1
        sender == IF split
                  THEN normaliseParticipantName(Trim(SliceTo(clean0, colonIndex)))
                  ELSE Undefined
        cleanText == IF split THEN Trim(SliceFrom(clean0, colonIndex + 1)) ELSE clean0
    IN  Message(timestamp, sender, cleanText, ~isMediaMessage, isMediaMessage,
                mediaType, "whatsapp")

\* the text of a line as the loop sees it (rawLine.trimEnd())
WaLineIsEmpty(line) ==
    line.marks = 0 /\ line.stamp = <<>> /\ TrimEnd(line.rest) = <<>>
WaLineIsDated(line) == line.marks = 0 /\ line.stamp # <<>>

\* the loop without the push in front of a new message
WaStepReplacing(acc, rawLine) ==
    LET line == [rawLine EXCEPT !.rest = TrimEnd(rawLine.rest)]
    IN  IF WaLineIsEmpty(line) THEN acc
        ELSE IF WaLineIsDated(line)
             THEN [acc EXCEPT !.currentMessage = <<WaDatedMessage(line)>>]
        ELSE IF line.marks > 0 \/ hasSystemPattern(line.rest)
             THEN [acc EXCEPT !.currentMessage = <<WaMarkedMessage(line)>>]
        ELSE IF acc.currentMessage # <<>>
             THEN [acc EXCEPT !.currentMessage[1].text =
                                  @ \o <<"\n">> \o stripControlMarks(line.rest)]
        ELSE acc

\* one turn of the loop over the lines; acc is [messages, currentMessage]
\* with currentMessage <<>> for null
WaStep(acc, rawLine) ==
    LET line == [rawLine EXCEPT !.rest = TrimEnd(rawLine.rest)]
        flushed == acc.messages \o acc.currentMessage
    IN  IF WaLineIsEmpty(line) THEN acc
        ELSE IF WaLineIsDated(line)
             THEN [messages |-> flushed, currentMessage |-> <<WaDatedMessage(line)>>]
        ELSE IF line.marks > 0 \/ hasSystemPattern(line.rest)
             THEN [messages |-> flushed, currentMessage |-> <<WaMarkedMessage(line)>>]
        ELSE IF acc.currentMessage # <<>>
             THEN [acc EXCEPT !.currentMessage[1].text =
                                  @ \o <<"\n">> \o stripControlMarks(line.rest)]
        ELSE acc

RECURSIVE WaLoop(_, _)
WaLoop(acc, lines) ==
    IF lines = <<>> THEN acc ELSE WaLoop(WaStep(acc, Head(lines)), Tail(lines))

RECURSIVE IndexOfSub(_, _)
\* String.prototype.indexOf(sub), 0-based, -1 when absent
IndexOfSub(s, sub) ==
    IF ~Includes(s, sub) THEN -1
    ELSE IF StartsWith(s, sub) THEN 0
    ELSE 1 + IndexOfSub(Tail(s), sub)

\* first pass over the messages: the group names system messages reveal
GroupNamePhrases == <<
    <<"c","h","a","n","g","e","d"," ","t","h","e"," ","g","r","o","u","p"," ","n","a","m","e"," ","t","o">>, <<"m","e","s","s","a","g","e","s"," ","a","n","d"," ","c","a","l","l","s"," ","a","r","e"," ","e","n","d","-","t","o","-","e","n","d"," ","e","n","c","r","y","p","t","e","d">>,
    <<"y","o","u"," ","c","r","e","a","t","e","d"," ","g","r","o","u","p">>, <<"y","o","u"," ","a","d","d","e","d">>, <<"y","o","u"," ","r","e","m","o","v","e","d">>, <<"y","o","u"," ","l","e","f","t">>,
    <<"y","o","u"," ","j","o","i","n","e","d">>, <<"y","o","u"," ","c","h","a","n","g","e","d"," ","t","h","e"," ","s","e","t","t","i","n","g","s">>, <<"y","o","u"," ","p","i","n","n","e","d"," ","a"," ","m","e","s","s","a","g","e">> >>
GroupIndicators == <<<<"c","l","u","b">>, <<"g","r","o","u","p">>, <<"e","d","i","t","i","o","n">>, <<"c","h","a","t">>, <<"t","e","a","m">>,
                     <<"c","r","e","w">>, <<"g","a","n","g">>, <<"s","q","u","a","d">>>>

\* /changed the group name to ["...]([^"...]+)["...]/i : the quoted name
QuotedGroupName(text) ==
    LET at == IndexOfSub(toLowerCase(text), <<"c","h","a","n","g","e","d"," ","t","h","e"," ","g","r","o","u","p"," ","n","a","m","e"," ","t","o"," ","\"">>)
        after == SliceFrom(text, at + 27)
        close == IndexOfChar(after, "\"")
    IN  IF at >= 0 /\ close >= 1 THEN <<SliceTo(after, close)>> ELSE <<>>

PrefixGroupName(text) ==
    LET prefix == Trim(Split(text, ":")[1])
    IN  IF /\ \E k \in 1..Len(GroupNamePhrases) :
                    Includes(toLowerCase(text), GroupNamePhrases[k])
           /\ prefix # <<>>
           /\ \E k \in 1..Len(GroupIndicators) :
                    Includes(toLowerCase(prefix), GroupIndicators[k])
        THEN <<prefix>> ELSE <<>>

RECURSIVE potentialGroupNames(_)
potentialGroupNames(messages) ==
    IF messages = <<>> THEN {}
    ELSE LET m == Head(messages)
         IN  (IF m.isSystem /\ m.text # <<>>
              THEN Range(QuotedGroupName(m.text)) \cup Range(PrefixGroupName(m.text))
              ELSE {})
             \cup potentialGroupNames(Tail(messages))

RECURSIVE WaParticipants(_, _, _)
\* second pass: the senders of the non-system messages, group names left out
WaParticipants(messages, groupNames, participants) ==
    IF messages = <<>> THEN participants
    ELSE LET m == Head(messages)
             normalized == normaliseParticipantName(m.from)
         IN  WaParticipants(Tail(messages), groupNames,
                IF Truthy(m.from) /\ ~m.isSystem /\ normalized \notin groupNames
                THEN SetAdd(participants, normalized) ELSE participants)

\* parseWhatsApp(chatText), chatText given as its lines
parseWhatsApp(lines) ==
    LET acc == WaLoop([messages |-> <<>>, currentMessage |-> <<>>], lines)
        messages == acc.messages \o acc.currentMessage
    IN  ParsedChat(messages,
                   WaParticipants(messages, potentialGroupNames(messages), <<>>),
                   "whatsapp", Undefined)

----------------------------------------------------------------------------
(* instagram.parser: parseInstagram *)

\* the four \u00f0\u009f.. escapes an export writes for one emoji
ESC_EMOJI == "<esc-emoji>"

\* decodeInstagramUnicode: a run of escapes is read back as UTF-8 bytes
decodeInstagramUnicode(str) ==
    [i \in 1..Len(str) |-> IF str[i] = ESC_EMOJI THEN EMOJI ELSE str[i]]

Digits == <<"0","1","2","3","4","5","6","7","8","9">>
RECURSIVE NumberToString(_)
\* Number.prototype.toString for a natural number
NumberToString(n) ==
    IF n < 10 THEN <<Digits[n + 1]>>
    ELSE NumberToString(n \div 10) \o <<Digits[(n % 10) + 1]>>
\* String.prototype.padStart(2, '0')
PadStart2(s) == IF Len(s) < 2 THEN <<"0">> \o s ELSE s

IgCountText(sender, n, noun) ==
    sender \o <<" ","s","e","n","t"," ">> \o NumberToString(n) \o <<" ">> \o noun
        \o (IF n > 1 THEN <<"s">> ELSE <<>>)

\* one turn of the loop over data.messages: <<>> for a skipped message
IgMessage(msg) ==
    LET timestamp == msg.timestamp_ms
        sender == normaliseParticipantName(decodeInstagramUnicode(msg.sender_name))
        text0 == IF Truthy(msg.content) THEN decodeInstagramUnicode(msg.content)
                 ELSE <<>>
        started == Includes(text0, <<"s","t","a","r","t","e","d"," ","a"," ","v","i","d","e","o"," ","c","h","a","t">>)
                    \/ Includes(text0, <<"s","t","a","r","t","e","d"," ","a"," ","v","o","i","c","e"," ","c","h","a","t">>)
        ended == Includes(text0, <<"V","i","d","e","o"," ","c","h","a","t"," ","e","n","d","e","d">>)
                    \/ Includes(text0, <<"V","o","i","c","e"," ","c","h","a","t"," ","e","n","d","e","d">>)
        kind ==
            IF msg.photos > 0 THEN "photo"
            ELSE IF msg.videos > 0 THEN "video"
            ELSE IF msg.audio_files > 0 THEN "audio"
            ELSE IF msg.share # <<>> THEN "share"
            ELSE IF msg.call_duration # -1 THEN "call"
            ELSE IF Includes(text0, <<"R","e","a","c","t","e","d">>) /\ Includes(text0, <<"t","o"," ","y","o","u","r"," ","m","e","s","s","a","g","e">>)
                 THEN "reaction"
            ELSE IF Trim(text0) = <<>> THEN "skip"
            ELSE "text"
        text ==
            CASE kind = "photo" -> IgCountText(sender, msg.photos, <<"p","h","o","t","o">>)
              [] kind = "video" -> IgCountText(sender, msg.videos, <<"v","i","d","e","o">>)
              [] kind = "audio" -> IgCountText(sender, msg.audio_files, <<"a","u","d","i","o"," ","f","i","l","e">>)
              [] kind = "share" ->
                    sender \o <<" ","s","h","a","r","e","d",":"," ">>
                        \o (IF msg.share[1] # <<>>
                            THEN decodeInstagramUnicode(msg.share[1])
                            ELSE <<"I","n","s","t","a","g","r","a","m"," ","c","o","n","t","e","n","t">>)
              [] kind = "call" ->
                    IF started
                    THEN sender \o <<" ","s","t","a","r","t","e","d"," ","a"," ">>
                            \o (IF Includes(text0, <<"v","i","d","e","o">>) THEN <<"v","i","d","e","o">> ELSE <<"v","o","i","c","e">>)
                            \o <<" ","c","h","a","t">>
                    ELSE IF ended
                    THEN text0 \o <<" ","(">> \o NumberToString(msg.call_duration \div 60) \o <<":">>
                            \o PadStart2(NumberToString(msg.call_duration % 60)) \o <<")">>
                    ELSE text0
              [] OTHER -> text0
        isSystem == (kind = "call" /\ (started \/ ended)) \/ kind = "reaction"
        isMedia == kind \in {"photo", "video", "audio", "share"}
    IN  IF kind = "skip" THEN <<>>
        ELSE <<Message(timestamp, IF isSystem THEN Undefined ELSE sender,
                       stripControlMarks(text), isSystem, isMedia,
                       IF isMedia THEN kind ELSE "null", "instagram")>>

RECURSIVE IgMessages(_)
IgMessages(msgs) ==
    IF msgs = <<>> THEN <<>> ELSE IgMessage(Head(msgs)) \o IgMessages(Tail(msgs))

RECURSIVE IgParticipants(_, _)
IgParticipants(entries, participants) ==
    IF entries = <<>> THEN participants
    ELSE IgParticipants(Tail(entries),
            SetAdd(participants,
                   normaliseParticipantName(decodeInstagramUnicode(Head(entries)))))

\* parseInstagram(chatJson, title) once JSON.parse has accepted the text
parseInstagram(data, title) ==
    ParsedChat(SortByTimestamp(IgMessages(data.messages)),
               IgParticipants(data.participants, <<>>), "instagram", title)

----------------------------------------------------------------------------
(* android-messages.parser: parseAndroidMessages *)

\* numeric character references as they stand in a body, "&#58;" and so on
EntityTokens == {"&#58;", "&#8206;", "&#128557;"}
EntityNumber(tok) ==
    CASE tok = "&#58;" -> 58
      [] tok = "&#8206;" -> 8206
      [] tok = "&#128557;" -> 128557
\* String.fromCharCode: the code unit is the number modulo 2^16
fromCharCode(n) ==
    LET unit == n % 65536
    IN  CASE unit = 58 -> ":"
          [] unit = 8206 -> LRM
          [] unit = 63021 -> "<uF62D>"
          [] OTHER -> "<unit>"
\* .replace(/&#(\d+);/g, (match, dec) => String.fromCharCode(parseInt(dec, 10)))
decodeEntities(text) ==
    [i \in 1..Len(text) |->
        IF text[i] \in EntityTokens THEN fromCharCode(EntityNumber(text[i]))
        ELSE text[i]]

AndroidSender(box, contact_name) ==
    IF box = "1" /\ Truthy(contact_name)
    THEN normaliseParticipantName(contact_name) ELSE Undefined

processSMSMessage(sms) ==
    LET messageText == decodeEntities(IF Truthy(sms.body) THEN sms.body ELSE <<>>)
        mediaType == getMediaType(messageText)
    IN  <<Message(sms.date, AndroidSender(sms.type, sms.contact_name),
                  stripControlMarks(messageText), FALSE, mediaType # "null",
                  mediaType, "android_messages")>>

RECURSIVE MmsText(_)
\* the text/plain parts, entity-decoded when the part is UTF-8 (chset 106)
MmsText(parts) ==
    IF parts = <<>> THEN <<>>
    ELSE LET part == Head(parts)
         IN  (IF part.ct = "text/plain" /\ Truthy(part.text)
              THEN (IF part.chset = 106 THEN decodeEntities(part.text) ELSE part.text)
              ELSE <<>>)
             \o MmsText(Tail(parts))

\* part.ct?.includes('image') and so on
MmsMediaKind(ct) ==
    CASE ct = "image/jpeg" -> "image"
      [] ct = "video/mp4" -> "video"
      [] ct = "audio/amr" -> "audio"
      [] OTHER -> "media"
KindText(kind) ==
    CASE kind = "image" -> <<"i","m","a","g","e">>
      [] kind = "video" -> <<"v","i","d","e","o">>
      [] kind = "audio" -> <<"a","u","d","i","o">>
      [] OTHER -> <<"m","e","d","i","a">>

RECURSIVE MmsMediaTypes(_)
MmsMediaTypes(parts) ==
    IF parts = <<>> THEN <<>>
    ELSE (IF Head(parts).ct # "text/plain" THEN <<MmsMediaKind(Head(parts).ct)>>
          ELSE <<>>)
         \o MmsMediaTypes(Tail(parts))

\* processMMSMessage: <<>> for null
processMMSMessage(mms) ==
    LET sender == AndroidSender(mms.msg_box, mms.contact_name)
        messageText == MmsText(mms.parts)
        mediaTypes == MmsMediaTypes(mms.parts)
        mediaType == getMediaType(messageText)
    IN  IF Trim(messageText) = <<>>
        THEN IF mediaTypes # <<>>
             THEN <<Message(mms.date, sender,
                            (IF Truthy(sender) THEN sender ELSE <<"U","n","k","n","o","w","n">>)
                                \o <<" ","s","e","n","t"," ">>
                                \o Join([i \in 1..Len(mediaTypes) |->
                                            KindText(mediaTypes[i])], <<","," ">>),
                            FALSE, TRUE, mediaTypes[1], "android_messages")>>
             ELSE <<>>
        ELSE <<Message(mms.date, sender, stripControlMarks(messageText), FALSE,
                       mediaType # "null", mediaType, "android_messages")>>

RECURSIVE AndroidMessages(_, _)
AndroidMessages(sms, mms) ==
    IF sms # <<>> THEN processSMSMessage(Head(sms)) \o AndroidMessages(Tail(sms), mms)
    ELSE IF mms # <<>> THEN processMMSMessage(Head(mms)) \o AndroidMessages(sms, Tail(mms))
    ELSE <<>>

RECURSIVE AndroidParticipants(_, _)
AndroidParticipants(messages, participants) ==
    IF messages = <<>> THEN participants
    ELSE AndroidParticipants(Tail(messages),
            IF Truthy(Head(messages).from)
            THEN SetAdd(participants, Head(messages).from) ELSE participants)

\* parseAndroidMessages(xmlContent, title) once the <smses> element is found
parseAndroidMessages(smses, title) ==
    LET messages == AndroidMessages(smses.sms, smses.mms)
    IN  ParsedChat(SortByTimestamp(messages), AndroidParticipants(messages, <<>>),
                   "android_messages", title)

----------------------------------------------------------------------------
(* file.utils and file-processor: detectPlatform, parseChatFile *)

\* A chat file.  ext is path.extname in lower case, basename the file name
\* without it.  The content is held as each parser reads it: lines is the
\* text split into lines, json is <<data>> when JSON.parse accepts the text
\* and smses is <<element>> when the XML has an <smses> root; both are <<>>
\* otherwise.
RawFile(ext, basename, lines, json, smses) ==
    [ext |-> ext, basename |-> basename, lines |-> lines, json |-> json,
     smses |-> smses]

BasenameHas(f, parts) ==
    \E p \in parts : Includes(toLowerCase(f.basename), p)

detectPlatform(f) ==
    IF BasenameHas(f, {<<".","w","h","a","t","s","a","p","p">>, <<"_","w","h","a","t","s","a","p","p">>}) THEN "whatsapp"
    ELSE IF BasenameHas(f, {<<".","i","n","s","t","a">>, <<"_","i","n","s","t","a">>}) THEN "instagram"
    ELSE IF BasenameHas(f, {<<".","a","n","d","r","o","i","d">>, <<"_","a","n","d","r","o","i","d">>, <<".","s","m","s">>, <<"_","s","m","s">>})
         THEN "android_messages"
    ELSE IF f.ext = ".json" /\ f.json # <<>> /\ f.json[1].messages # <<>>
         THEN "instagram"
    ELSE IF f.ext = ".xml" /\ f.smses # <<>> THEN "android_messages"
    ELSE "whatsapp"

\* parseChatFile: <<chat>>, or <<>> when the parser throws
parseChatFile(f) ==
    LET platform == detectPlatform(f)
    IN  IF platform = "instagram"
        THEN (IF f.json # <<>> THEN <<parseInstagram(f.json[1], f.basename)>> ELSE <<>>)
        ELSE IF platform = "android_messages"
        THEN (IF f.smses # <<>> THEN <<parseAndroidMessages(f.smses[1], f.basename)>>
              ELSE <<>>)
        ELSE <<parseWhatsApp(f.lines)>>

----------------------------------------------------------------------------
(* chat-merger: mergeChats, findRelatedChats *)

PlatformText(platform) ==
    CASE platform = "whatsapp" -> <<"w","h","a","t","s","a","p","p">>
      [] platform = "instagram" -> <<"i","n","s","t","a","g","r","a","m">>
      [] platform = "android_messages" -> <<"a","n","d","r","o","i","d","_","m","e","s","s","a","g","e","s">>
      [] OTHER -> <<"m","i","x","e","d">>

\* the grouping key of a chat: `${chat.platform}:${normalisedParticipants}`
RelatedKey(chat) ==
    PlatformText(chat.platform) \o <<":">>
        \o Join(SortStrings([i \in 1..Len(chat.participants) |->
                    toLowerCase(normaliseParticipantName(chat.participants[i]))]),
                <<"|">>)

RECURSIVE GroupByKey(_, _)
\* the Map of findRelatedChats, filled in the order of the chats
GroupByKey(chats, groups) ==
    IF chats = <<>> THEN groups
    ELSE LET chat == Head(chats)
             key == RelatedKey(chat)
             at == {i \in 1..Len(groups) : groups[i].key = key}
         IN  GroupByKey(Tail(chats),
                IF at = {}
                THEN Append(groups, [key |-> key, chats |-> <<chat>>])
                ELSE [groups EXCEPT ![CHOOSE i \in at : TRUE].chats = Append(@, chat)])

findRelatedChats(chats) == GroupByKey(chats, <<>>)

RECURSIVE FlatMessages(_)
FlatMessages(chats) ==
    IF chats = <<>> THEN <<>> ELSE Head(chats).messages \o FlatMessages(Tail(chats))
RECURSIVE AllParticipants(_, _)
AllParticipants(chats, acc) ==
    IF chats = <<>> THEN acc
    ELSE AllParticipants(Tail(chats), SetAddAll(acc, Head(chats).participants))
RECURSIVE TruthyTitles(_)
TruthyTitles(chats) ==
    IF chats = <<>> THEN <<>>
    ELSE (IF Truthy(Head(chats).title) THEN <<Head(chats).title>> ELSE <<>>)
         \o TruthyTitles(Tail(chats))

\* mergeChats without its one-element shortcut: the chat is rebuilt
mergeChatsRebuilt(chats) ==
    ParsedChat(SortByTimestamp(FlatMessages(chats)), AllParticipants(chats, <<>>),
               IF Cardinality({chats[i].platform : i \in 1..Len(chats)}) = 1
               THEN chats[1].platform ELSE "mixed",
               IF TruthyTitles(chats) # <<>> THEN Join(TruthyTitles(chats), <<" ","+"," ">>)
               ELSE Undefined)

mergeChats(chats) ==
    IF chats = <<>> THEN ParsedChat(<<>>, <<>>, "mixed", Undefined)
    ELSE IF Len(chats) = 1 THEN chats[1]
    ELSE LET platforms == {chats[i].platform : i \in 1..Len(chats)}
             titles == TruthyTitles(chats)
         IN  ParsedChat(SortByTimestamp(FlatMessages(chats)),
                        AllParticipants(chats, <<>>),
                        IF Cardinality(platforms) = 1 THEN chats[1].platform
                        ELSE "mixed",
                        IF titles # <<>> THEN Join(titles, <<" ","+"," ">>) ELSE Undefined)

----------------------------------------------------------------------------
(* file-processor: processMultipleChats *)

\* the loop of processMultipleChats with a try that gives up at the first
\* error: the files after it are never read
ParseFileAborting ==
    /\ pc = "parse"
    /\ fileIdx < Len(files)
    /\ LET result == parseChatFile(files[fileIdx + 1])
       IN  /\ parsedChats' = IF result # <<>> /\ result[1].messages # <<>>
                             THEN Append(parsedChats, result[1])
                             ELSE parsedChats
           /\ parseErrors' = IF result = <<>> THEN parseErrors \cup {fileIdx + 1}
                             ELSE parseErrors
           /\ fileIdx' = IF result = <<>> THEN Len(files) ELSE fileIdx + 1
    /\ UNCHANGED <<files, pc, relatedGroups, mergedChats, rl, nameMappings,
                   normalisedChats, analysis>>
    /\ UNCHANGED <<dateVars, lineVars, metricVars, ownerVars>>

\* one turn of the loop over filePaths: parse, keep the chat if it has messages
ParseFile ==
    /\ pc = "parse"
    /\ fileIdx < Len(files)
    /\ LET result == parseChatFile(files[fileIdx + 1])
       IN  /\ parsedChats' = IF result # <<>> /\ result[1].messages # <<>>
                             THEN Append(parsedChats, result[1])
                             ELSE parsedChats
           /\ parseErrors' = IF result = <<>> THEN parseErrors \cup {fileIdx + 1}
                             ELSE parseErrors
    /\ fileIdx' = fileIdx + 1
    /\ UNCHANGED <<files, pc, relatedGroups, mergedChats, rl, nameMappings,
                   normalisedChats, analysis>>
    /\ UNCHANGED <<dateVars, lineVars, metricVars, ownerVars>>

\* the rest of processMultipleChats: group the chats and merge each group
GroupAndMerge ==
    /\ pc = "parse"
    /\ fileIdx = Len(files)
    /\ relatedGroups' = findRelatedChats(parsedChats)
    /\ mergedChats' = [g \in 1..Len(relatedGroups') |->
                          IF Len(relatedGroups'[g].chats) = 1
                          THEN relatedGroups'[g].chats[1]
                          ELSE mergeChats(relatedGroups'[g].chats)]
    /\ pc' = "merged"
    /\ UNCHANGED <<files, fileIdx, parsedChats, parseErrors, rl, nameMappings,
                   normalisedChats, analysis>>
    /\ UNCHANGED <<dateVars, lineVars, metricVars, ownerVars>>

----------------------------------------------------------------------------
(* Parsing one file: the inputs of the three parsers *)

\* the most lines of a text export, messages of a JSON export and <sms>
\* elements of an XML backup that the files of the model hold
MaxItems == 2

RECURSIVE SeqsUpTo(_, _)
\* the sequences over S of length at most n
SeqsUpTo(S, n) ==
    IF n = 0 THEN {<<>>}
    ELSE LET shorter == SeqsUpTo(S, n - 1)
         IN  shorter \cup {Append(s, x) : s \in {t \in shorter : Len(t) = n - 1}, x \in S}

\* timestamp prefixes of an export written month first: "1/13/24, 10:00" and
\* "2/1/24, 9:05:30 PM"
WaStamps ==
    { [dayOrMonth |-> 1, monthOrDay |-> 13, year |-> 24, hour |-> 10,
       minute |-> 0, second |-> NoSecond, ampm |-> Undefined],
      [dayOrMonth |-> 2, monthOrDay |-> 1, year |-> 24, hour |-> 9,
       minute |-> 5, second |-> 30, ampm |-> <<"P","M">>] }

WaRests == { <<"A","l",":"," ","h","i">>, <<"B","o",":"," ","i","m","a","g","e"," ","o","m","i","t","t","e","d">>, <<"A","l"," ","l","e","f","t">>, <<"o","k"," ">> }

\* the lines of a text export; a line that is a bare timestamp is left out
WaLines ==
    { WaLine(marks, stamp, rest) :
        marks \in {0, 1}, stamp \in {<<>>} \cup {<<s>> : s \in WaStamps},
        rest \in WaRests }

IgMessagePool ==
    { [sender_name |-> sender, timestamp_ms |-> ts, content |-> c.content,
       photos |-> c.photos, videos |-> 0, audio_files |-> 0, share |-> <<>>,
       call_duration |-> c.call] :
        sender \in {<<"A","l">>, <<"B", "o", NBSP>>},
        ts \in {90000000, 93000000},
        c \in { [content |-> <<"h", "i", ESC_EMOJI>>, photos |-> 0, call |-> -1],
                [content |-> Undefined, photos |-> 2, call |-> -1],
                [content |-> <<"V","i","d","e","o"," ","c","h","a","t"," ","e","n","d","e","d">>, photos |-> 0, call |-> 75] } }

IgData ==
    { [participants |-> <<<<"A","l">>, <<"B","o">>>>, messages |-> msgs] :
        msgs \in SeqsUpTo(IgMessagePool, MaxItems) }

SmsPool ==
    { [date |-> d, type |-> t, contact_name |-> <<"A","l">>, body |-> b] :
        d \in {90000000, 93000000}, t \in {"1", "2"},
        b \in {<<"h", "i", "&#128557;">>, <<"i","m","a","g","e"," ","o","m","i","t","t","e","d">>} }

MmsPool ==
    { [date |-> 91000000, msg_box |-> "1", contact_name |-> <<"A","l">>, parts |-> parts] :
        parts \in { <<[ct |-> "text/plain", chset |-> 106, text |-> <<"a", "&#58;">>]>>,
                    <<[ct |-> "application/smil", chset |-> 106, text |-> Undefined],
                      [ct |-> "image/jpeg", chset |-> 106, text |-> Undefined]>>,
                    <<>> } }

Smses ==
    { [sms |-> sms, mms |-> mms] :
        sms \in SeqsUpTo(SmsPool, MaxItems), mms \in SeqsUpTo(MmsPool, 1) }

\* the files a run over one file may be given
ParseFiles ==
    { RawFile(".txt", <<"c","h","a","t">>, lines, <<>>, <<>>) : lines \in SeqsUpTo(WaLines, MaxItems) }
    \cup { RawFile(".json", <<"m","e","s","s","a","g","e">>, <<>>, <<data>>, <<>>) : data \in IgData }
    \cup { RawFile(".xml", <<"b","a","c","k","u","p">>, <<>>, <<>>, <<smses>>) : smses \in Smses }
    \cup { RawFile(".json", <<"n","o","t","e","s","_","i","n","s","t","a">>, <<>>, <<>>, <<>>),
           RawFile(".xml", <<"o","t","h","e","r","_","s","m","s">>, <<>>, <<>>, <<>>) }

InitParse ==
    /\ DateIdle /\ LinesIdle /\ MetricsIdle /\ OwnerIdle
    /\ files \in {<<f>> : f \in ParseFiles}
    /\ pc = "parse"
    /\ fileIdx = 0
    /\ parsedChats = <<>>
    /\ parseErrors = {}
    /\ relatedGroups = <<>>
    /\ mergedChats = <<>>
    /\ rl = <<>>
    /\ nameMappings = <<>>
    /\ normalisedChats = <<>>
    /\ analysis = <<>>

NextProcess == ParseFile \/ GroupAndMerge

SpecParse == InitParse /\ [][NextProcess]_vars

IsSorted(messages) ==
    \A i \in 1..(Len(messages) - 1) :
        messages[i].timestamp <= messages[i + 1].timestamp

\* C1: every ParsedChat a parser returns has its messages in non-decreasing
\* timestamp order, whatever the order of the messages in the file.
C1_ParsersSorted ==
    \A i \in 1..Len(parsedChats) : IsSorted(parsedChats[i].messages)

\* C1 restricted to the parsers that sort: Instagram and Android Messages
C1_SortingParsersSorted ==
    \A i \in 1..Len(parsedChats) :
        parsedChats[i].platform # "whatsapp" => IsSorted(parsedChats[i].messages)

----------------------------------------------------------------------------
(* Processing several files: grouping and merging *)

\* the most files a run is given
MaxFiles == 3

\* a text export whose i-th line is "<stamp> <sender>: hi"; the stamps are
\* those of the lines in the file's own order
WaExport(stamps, senders) ==
    RawFile(".txt", <<"c","h","a","t">>,
            [i \in 1..Len(senders) |-> WaLine(0, <<stamps[i]>>, senders[i] \o <<":"," ","h","i">>)],
            <<>>, <<>>)

Jan13 == CHOOSE s \in WaStamps : s.monthOrDay = 13
Jan02 == CHOOSE s \in WaStamps : s.monthOrDay = 1

IgExport(basename, names, ts) ==
    RawFile(".json", basename, <<>>,
            <<[participants |-> names,
               messages |-> <<[sender_name |-> names[1], timestamp_ms |-> ts,
                               content |-> <<"h","e","y">>, photos |-> 0, videos |-> 0,
                               audio_files |-> 0, share |-> <<>>,
                               call_duration |-> -1]>>]>>,
            <<>>)

MergeFiles ==
    { WaExport(<<Jan13, Jan02>>, <<<<"A","l">>, <<"B","o">>>>),
      WaExport(<<Jan02, Jan13>>, <<<<"a","l">>, <<"B","o">>>>),
      WaExport(<<Jan02>>, <<<<"A","l","|","B","o">>>>),
      WaExport(<<Jan02, Jan13>>, <<<<"A","l">>, <<"a","l">>>>),
      WaExport(<<Jan13>>, <<<<"a","l">>>>),
      IgExport(<<"i","n","b","o","x">>, <<<<"A","l">>, <<"B","o">>>>, 93000000),
      IgExport(<<"d","i","r","e","c","t">>, <<<<"B","o">>, <<"A", "l", NBSP>>>>, 90000000),
      RawFile(".json", <<"n","o","t","e","s","_","i","n","s","t","a">>, <<>>, <<>>, <<>>),
      RawFile(".xml", <<"b","a","c","k","u","p","_","s","m","s">>, <<>>, <<>>, <<>>) }

InitMerge ==
    /\ DateIdle /\ LinesIdle /\ MetricsIdle /\ OwnerIdle
    /\ files \in SeqsUpTo(MergeFiles, MaxFiles) \ {<<>>}
    /\ pc = "parse"
    /\ fileIdx = 0
    /\ parsedChats = <<>>
    /\ parseErrors = {}
    /\ relatedGroups = <<>>
    /\ mergedChats = <<>>
    /\ rl = <<>>
    /\ nameMappings = <<>>
    /\ normalisedChats = <<>>
    /\ analysis = <<>>

SpecMerge == InitMerge /\ [][NextProcess]_vars

RECURSIVE UsableChats(_, _)
\* the chats of the first n files: of those that parse, those with messages
UsableChats(fs, n) ==
    IF n = 0 THEN <<>>
    ELSE LET result == parseChatFile(fs[n])
         IN  UsableChats(fs, n - 1)
                \o (IF result # <<>> /\ result[1].messages # <<>> THEN result ELSE <<>>)

MessageCount(chats) == Sum([i \in 1..Len(chats) |-> Len(chats[i].messages)])

\* C14: a file whose parser throws is skipped and recorded, and does not end
\* the run: wherever it stands in the list, every other file is parsed, and
\* every file that yields a chat with messages has that chat in the output.
C14_FailingFileSkipped ==
    /\ parsedChats = UsableChats(files, fileIdx)
    /\ parseErrors = {i \in 1..fileIdx : parseChatFile(files[i]) = <<>>}
    /\ pc = "merged" =>
          /\ fileIdx = Len(files)
          /\ MessageCount(mergedChats) = MessageCount(UsableChats(files, Len(files)))
          /\ \A i \in 1..Len(files) :
                LET result == parseChatFile(files[i])
                IN  (result # <<>> /\ result[1].messages # <<>>) =>
                        \E g \in 1..Len(mergedChats) :
                            /\ mergedChats[g].platform = result[1].platform
                            /\ Range(result[1].messages) \subseteq Range(mergedChats[g].messages)

\* three files, the one in the middle an Android backup without <smses>,
\* with both neighbours in the output
C14_Witness ==
    /\ pc = "merged"
    /\ Len(files) = 3
    /\ parseErrors = {2}
    /\ files[2].ext = ".xml"
    /\ Len(parsedChats) = 2

\* C2: the chat mergeChats returns for a non-empty list, and every chat
\* processMultipleChats returns, has its messages in non-decreasing
\* timestamp order.
C2_MergedSorted ==
    pc = "merged" =>
        /\ \A g \in 1..Len(mergedChats) : IsSorted(mergedChats[g].messages)
        /\ \A g \in 1..Len(relatedGroups) :
                IsSorted(mergeChats(relatedGroups[g].chats).messages)

\* C2 restricted to groups of two chats or more, which mergeChats re-sorts
C2_MultiMergedSorted ==
    pc = "merged" =>
        \A g \in 1..Len(relatedGroups) :
            Len(relatedGroups[g].chats) > 1 => IsSorted(mergedChats[g].messages)

FoldedNames(chat) ==
    {toLowerCase(normaliseParticipantName(chat.participants[i])) :
        i \in 1..Len(chat.participants)}

Grouped(a, b) ==
    \E g \in 1..Len(relatedGroups) :
        a \in Range(relatedGroups[g].chats) /\ b \in Range(relatedGroups[g].chats)

\* C6: findRelatedChats puts two chats in one group if and only if they have
\* the same platform and the same set of participant names after whitespace
\* normalisation and case folding.
C6_GroupedIffSameNames ==
    pc = "merged" =>
        \A i, j \in 1..Len(parsedChats) :
            Grouped(parsedChats[i], parsedChats[j])
                <=> /\ parsedChats[i].platform = parsedChats[j].platform
                    /\ FoldedNames(parsedChats[i]) = FoldedNames(parsedChats[j])

\* C6, the half that holds: chats of different platforms are never grouped
C6_PlatformsApart ==
    pc = "merged" =>
        \A i, j \in 1..Len(parsedChats) :
            Grouped(parsedChats[i], parsedChats[j])
                => parsedChats[i].platform = parsedChats[j].platform

\* C7: mergeChats of a one-element list returns the element unchanged, and
\* processMultipleChats returns the chat of every singleton group unaltered.
C7_SingletonUnchanged ==
    /\ \A i \in 1..Len(parsedChats) : mergeChats(<<parsedChats[i]>>) = parsedChats[i]
    /\ pc = "merged" =>
        \A g \in 1..Len(relatedGroups) :
            Len(relatedGroups[g].chats) = 1
                => /\ mergedChats[g] = relatedGroups[g].chats[1]
                   /\ mergedChats[g] \in Range(parsedChats)

\* C7 witness: a run has returned an unsorted chat that was alone in its group
C7_Witness ==
    /\ pc = "merged"
    /\ \E g \in 1..Len(relatedGroups) :
            /\ Len(relatedGroups[g].chats) = 1
            /\ Len(mergedChats[g].messages) = 2
            /\ ~IsSorted(mergedChats[g].messages)
    /\ \E g \in 1..Len(relatedGroups) : Len(relatedGroups[g].chats) > 1

----------------------------------------------------------------------------
(* text.utils and constants: what computeMetrics counts in a text *)

DEFAULT_ENGAGEMENT_GAP_MS == 120000
DEFAULT_SESSION_GAP_MS == 2700000
DEFAULT_ONE_MINUTE_MS == 60000

\* String.prototype.length: UTF-16 code units
JsLength(s) == Sum([i \in 1..Len(s) |-> IF s[i] = EMOJI THEN 2 ELSE 1])

RECURSIVE RemoveUnicodeMentions(_)
\* .replace(/\u2068([\s\S]*?)\u2069/g, ""): each isolate up to the next closing one
RemoveUnicodeMentions(s) ==
    IF s = <<>> THEN <<>>
    ELSE IF Head(s) = FSI /\ IndexOfChar(Tail(s), PDI) > -1
         THEN RemoveUnicodeMentions(SliceFrom(Tail(s), IndexOfChar(Tail(s), PDI) + 1))
         ELSE <<Head(s)>> \o RemoveUnicodeMentions(Tail(s))

\* the character class of atMentionRegex: letters, direction marks, whitespace
IsMentionChar(c) == IsLetter(c) \/ IsControlMark(c) \/ IsSpace(c)
RECURSIVE SkipMentionChars(_)
SkipMentionChars(s) ==
    IF s # <<>> /\ IsMentionChar(Head(s)) THEN SkipMentionChars(Tail(s)) ELSE s
RECURSIVE RemoveAtMentions(_)
\* .replace(/@([A-Za-z...\s]+)/g, "")
RemoveAtMentions(s) ==
    IF s = <<>> THEN <<>>
    ELSE IF Head(s) = "@" /\ Len(s) > 1 /\ IsMentionChar(s[2])
         THEN RemoveAtMentions(SkipMentionChars(Tail(s)))
         ELSE <<Head(s)>> \o RemoveAtMentions(Tail(s))

\* the measured text without the media-notice exemption
VisibleTextOfAny(m) ==
    stripControlMarks(RemoveAtMentions(RemoveUnicodeMentions(m.text)))

\* the text computeMetrics measures
VisibleText(m) ==
    IF m.isMediaNotice THEN <<>>
    ELSE stripControlMarks(RemoveAtMentions(RemoveUnicodeMentions(m.text)))

RECURSIVE CountEmojisFrom(_, _)
\* EMOJI_REGEX is global: test() starts at lastIndex, which a match leaves at
\* the end of the cluster and a failure resets
CountEmojisFrom(clusters, index) ==
    IF clusters = <<>> THEN 0
    ELSE IF Head(clusters) = EMOJI /\ index = 0
         THEN 1 + CountEmojisFrom(Tail(clusters), 2)
         ELSE CountEmojisFrom(Tail(clusters), 0)

\* the most grapheme clusters of a text handed to countEmojis
MaxClusters == 4

EmojiTexts == SeqsUpTo({EMOJI, "a", " "}, MaxClusters)

countEmojis(text) == CountEmojisFrom(text, 0)

RECURSIVE LastIndexAfter(_, _)
\* EMOJI_REGEX.lastIndex once countEmojis has tested every cluster
LastIndexAfter(clusters, index) ==
    IF clusters = <<>> THEN index
    ELSE IF Head(clusters) = EMOJI /\ index = 0
         THEN LastIndexAfter(Tail(clusters), 2)
         ELSE LastIndexAfter(Tail(clusters), 0)

\* a call of countEmojis from outside computeMetrics: the regular expression
\* is the module's shared one, with the lastIndex the call before left
CallCountEmojis ==
    /\ \E text \in EmojiTexts :
          /\ emojiIn' = text
          /\ emojiOut' = <<CountEmojisFrom(text, lastIndex)>>
          /\ lastIndex' = LastIndexAfter(text, lastIndex)
    /\ UNCHANGED <<mChat, mOpts, mIdx, mAcc, metrics, timezoneOffsetMs>>
    /\ UNCHANGED <<dateVars, lineVars, pipeVars>>

RECURSIVE SkipNonSpace(_)
SkipNonSpace(s) == IF s # <<>> /\ ~IsSpace(Head(s)) THEN SkipNonSpace(Tail(s)) ELSE s
LinkSchemeLength(s) ==
    IF StartsWith(toLowerCase(s), <<"h","t","t","p","s",":","/","/">>) THEN 8
    ELSE IF StartsWith(toLowerCase(s), <<"h","t","t","p",":","/","/">>) THEN 7
    ELSE 0
RECURSIVE CountLinks(_)
\* (visibleText.match(LINK_REGEX) || []).length
CountLinks(s) ==
    IF s = <<>> THEN 0
    ELSE LET n == LinkSchemeLength(s)
         IN  IF n > 0 /\ Len(s) > n /\ ~IsSpace(s[n + 1])
             THEN 1 + CountLinks(SkipNonSpace(SliceFrom(s, n)))
             ELSE CountLinks(Tail(s))

RECURSIVE WordTokens(_, _)
\* text.match(/\p{L}+(?:['\u2019]\p{L}+)*/gu): cur is the token being read
WordTokens(s, cur) ==
    IF s = <<>> THEN (IF cur = <<>> THEN <<>> ELSE <<cur>>)
    ELSE IF IsLetter(Head(s)) THEN WordTokens(Tail(s), Append(cur, Head(s)))
    ELSE IF Head(s) = "'" /\ cur # <<>> /\ Len(s) > 1 /\ IsLetter(s[2])
         THEN WordTokens(Tail(s), Append(cur, "'"))
    ELSE (IF cur = <<>> THEN <<>> ELSE <<cur>>) \o WordTokens(Tail(s), <<>>)

systemWords ==
    { <<"o","m","i","t","t","e","d">>, <<"e","d","i","t","e","d">>, <<"d","e","l","e","t","e","d">>, <<"r","e","m","o","v","e","d">>, <<"c","h","a","n","g","e","d">>, <<"a","d","d","e","d">>, <<"l","e","f","t">>,
      <<"j","o","i","n","e","d">>, <<"c","r","e","a","t","e","d">>, <<"p","i","n","n","e","d">>, <<"u","n","p","i","n","n","e","d">>, <<"e","n","c","r","y","p","t","e","d">>, <<"e","n","d","-","t","o","-","e","n","d">>,
      <<"m","e","s","s","a","g","e","s">>, <<"c","a","l","l","s">>, <<"g","r","o","u","p">>, <<"n","a","m","e">>, <<"i","c","o","n">>, <<"s","e","t","t","i","n","g","s">>, <<"a","d","m","i","n">>,
      <<"a","d","m","i","n","s">>, <<"s","e","c","u","r","i","t","y">>, <<"c","o","d","e">>, <<"m","i","s","s","e","d">>, <<"v","o","i","c","e">>, <<"v","i","d","e","o">>, <<"c","a","l","l">>,
      <<"p","o","l","l">>, <<"t","h","i","s">>, <<"m","e","s","s","a","g","e">>, <<"w","a","s">>, <<"t","o">>, <<"t","h","e">>, <<"y","o","u">>, <<"o","n","l","y">>,
      <<"p","e","o","p","l","e">>, <<"c","a","n">>, <<"r","e","a","d">>, <<"l","i","s","t","e","n">>, <<"s","h","a","r","e">>, <<"t","h","e","m">>, <<"o","u","t","s","i","d","e">>,
      <<"c","h","a","t">>, <<"n","o","t">>, <<"e","v","e","n">>, <<"w","h","a","t","s","a","p","p">>, <<"m","e","t","a">>, <<"a","i">>, <<"m","e","n","t","i","o","n">>,
      <<"h","t","t","p","s">>, <<"h","t","t","p">>, <<"w","w","w">>, <<"c","o","m">>, <<"o","r","g">>, <<"n","e","t">> }

RECURSIVE Filter(_, _)
Filter(xs, keep) ==
    IF xs = <<>> THEN <<>>
    ELSE (IF Head(xs) \in keep THEN <<Head(xs)>> ELSE <<>>) \o Filter(Tail(xs), keep)

tokeniseWords(text, isSystem) ==
    LET words == WordTokens(toLowerCase(text), <<>>)
    IN  IF isSystem THEN Filter(words, Range(words) \ systemWords) ELSE words

----------------------------------------------------------------------------
(* metrics.computer: computeMetrics *)

\* options.x ?? dflt, an omitted option being <<>>
Coalesce(opt, dflt) == IF opt = <<>> THEN dflt ELSE opt[1]

SystemKey == <<"_","_","s","y","s","t","e","m","_","_">>
\* byUser is an object literal: besides its own keys it answers to those of
\* Object.prototype, to which writes do not add an entry
ProtoKeys == { <<"c","o","n","s","t","r","u","c","t","o","r">>, <<"t","o","S","t","r","i","n","g">>, <<"v","a","l","u","e","O","f">>, <<"h","a","s","O","w","n","P","r","o","p","e","r","t","y">> }

UserKey(m) == IF Truthy(m.from) THEN normaliseParticipantName(m.from) ELSE SystemKey

NewUserEntry(user) ==
    [user |-> user, messages |-> 0, words |-> 0, characters |-> 0, emojis |-> 0,
     mediaNotices |-> 0, links |-> 0]

\* the per-user aggregation of one message: byUser as its own entries, in
\* insertion order
ByUserAfter(byUser, m) ==
    LET userKey == UserKey(m)
        visibleText == VisibleText(m)
        own == {i \in 1..Len(byUser) : byUser[i].user = userKey}
        withKey == IF own = {} /\ userKey \notin ProtoKeys
                   THEN Append(byUser, NewUserEntry(userKey)) ELSE byUser
        at == {i \in 1..Len(withKey) : withKey[i].user = userKey}
    IN  IF at = {} THEN withKey
        ELSE [withKey EXCEPT ![CHOOSE i \in at : TRUE] =
                [@ EXCEPT !.messages = @ + 1,
                          !.mediaNotices = @ + (IF m.isMediaNotice THEN 1 ELSE 0),
                          !.characters = @ + JsLength(visibleText),
                          !.words = @ + Len(tokeniseWords(visibleText, m.isSystem)),
                          !.emojis = @ + countEmojis(visibleText),
                          !.links = @ + CountLinks(visibleText)]]

TotalsAfter(totals, m) ==
    LET visibleText == VisibleText(m)
    IN  [messages |-> totals.messages + 1,
         words |-> totals.words + Len(tokeniseWords(visibleText, m.isSystem)),
         characters |-> totals.characters + JsLength(visibleText),
         emojis |-> totals.emojis + countEmojis(visibleText),
         mediaNotices |-> totals.mediaNotices + (IF m.isMediaNotice THEN 1 ELSE 0),
         links |-> totals.links + CountLinks(visibleText)]

NewSession(m, platform) ==
    [start |-> m.timestamp, end |-> m.timestamp, count |-> 1,
     participants |-> IF Truthy(m.from) THEN <<m.from>> ELSE <<>>,
     initiator |-> m.from, platform |-> platform]

\* the session step with the end of the session left where it started
SessionsAfterStaleEnd(sessions, m, sessionGapMs, platform) ==
    IF sessions = <<>> THEN <<NewSession(m, platform)>>
    ELSE IF m.timestamp - sessions[Len(sessions)].end <= sessionGapMs
         THEN [sessions EXCEPT ![Len(sessions)].count = @ + 1]
         ELSE Append(sessions, NewSession(m, platform))

\* the session step with a gap equal to sessionGapMs opening a session
SessionsAfterStrict(sessions, m, sessionGapMs, platform) ==
    IF sessions = <<>> THEN <<NewSession(m, platform)>>
    ELSE IF m.timestamp - sessions[Len(sessions)].end < sessionGapMs
         THEN [sessions EXCEPT ![Len(sessions)] =
                 [@ EXCEPT !.end = m.timestamp,
                           !.count = @ + 1,
                           !.participants = IF Truthy(m.from)
                                            THEN SetAdd(@, m.from) ELSE @]]
         ELSE Append(sessions, NewSession(m, platform))

\* sessions by gap; curSession is the last session of the list
SessionsAfter(sessions, m, sessionGapMs, platform) ==
    IF sessions = <<>> THEN <<NewSession(m, platform)>>
    ELSE LET curSession == sessions[Len(sessions)]
             deltaSinceSessionEnd == m.timestamp - curSession.end
         IN  IF deltaSinceSessionEnd <= sessionGapMs
             THEN [sessions EXCEPT ![Len(sessions)] =
                     [@ EXCEPT !.end = m.timestamp,
                               !.count = @ + 1,
                               !.participants = IF Truthy(m.from)
                                                THEN SetAdd(@, m.from) ELSE @]]
             ELSE Append(sessions, NewSession(m, platform))

TimeSpentAfter(timeSpentMs, prev, m, opts) ==
    LET engagementGapMs == Coalesce(opts.gapMs, DEFAULT_ENGAGEMENT_GAP_MS)
        countFullGap == Coalesce(opts.countFullGap, TRUE)
        delta == m.timestamp - prev[1].timestamp
    IN  IF prev # <<>> /\ delta > 0 /\ delta <= engagementGapMs
        THEN timeSpentMs + (IF countFullGap THEN Min(delta, engagementGapMs)
                            ELSE DEFAULT_ONE_MINUTE_MS)
        ELSE timeSpentMs

\* m as the loop leaves it: m.from = normaliseParticipantName(m.from)
MessageAfter(m) ==
    IF Truthy(m.from) THEN [m EXCEPT !.from = normaliseParticipantName(m.from)] ELSE m

\* one day in milliseconds: 1000 * 60 * 60 * 24
DayMs == 86400000

\* timestamp.toISOString().split('T')[0]: the UTC calendar date, as the
\* number of days from 1 January 2024 UTC; the order of the keys is the
\* order of the "YYYY-MM-DD" strings
DateKey(timestamp) == (timestamp + timezoneOffsetMs) \div DayMs

\* Map.get(key) ?? [] and Map.set(key, value) on a Map from strings to
\* arrays, kept in insertion order
ArrGet(map, key) ==
    LET at == {i \in 1..Len(map) : map[i].key = key}
    IN  IF at = {} THEN <<>> ELSE map[CHOOSE i \in at : TRUE].arr
ArrSet(map, key, arr) ==
    LET at == {i \in 1..Len(map) : map[i].key = key}
    IN  IF at = {} THEN Append(map, [key |-> key, arr |-> arr])
        ELSE [map EXCEPT ![CHOOSE i \in at : TRUE].arr = arr]

\* perUserDailyActivity after one message: the date key joins the Set of
\* the (normalised) sender
DailyActivityAfter(perUserDailyActivity, m) ==
    IF Truthy(m.from)
    THEN ArrSet(perUserDailyActivity, normaliseParticipantName(m.from),
                SetAdd(ArrGet(perUserDailyActivity, normaliseParticipantName(m.from)),
                       DateKey(m.timestamp)))
    ELSE perUserDailyActivity

RECURSIVE InsertNumber(_, _)
InsertNumber(sorted, x) ==
    IF sorted = <<>> THEN <<x>>
    ELSE IF x < Head(sorted) THEN <<x>> \o sorted
    ELSE <<Head(sorted)>> \o InsertNumber(Tail(sorted), x)
RECURSIVE SortNumbers(_)
\* arr.sort((a, b) => a - b), and Array.sort() on date keys
SortNumbers(arr) ==
    IF arr = <<>> THEN <<>>
    ELSE InsertNumber(SortNumbers(SubSeq(arr, 1, Len(arr) - 1)), arr[Len(arr)])

RECURSIVE LongestStreakLoop(_, _, _, _)
\* the loop over sortedDates from index i, and the Math.max after it
LongestStreakLoop(sortedDates, i, longestStreak, tempStreak) ==
    IF i > Len(sortedDates) THEN Max(longestStreak, tempStreak)
    ELSE IF sortedDates[i] - sortedDates[i - 1] = 1
         THEN LongestStreakLoop(sortedDates, i + 1, longestStreak, tempStreak + 1)
         ELSE LongestStreakLoop(sortedDates, i + 1, Max(longestStreak, tempStreak), 1)

RECURSIVE CurrentStreakLoop(_, _, _)
\* the loop backwards from the most recent date, i the index of prevDate
CurrentStreakLoop(sortedDates, i, currentStreak) ==
    IF i < 1 THEN currentStreak
    ELSE IF sortedDates[i + 1] - sortedDates[i] = 1
         THEN CurrentStreakLoop(sortedDates, i - 1, currentStreak + 1)
         ELSE currentStreak

\* longestStreak and currentStreak of a user's date keys; today is the UTC
\* date of the clock
Streaks(sortedDates, today) ==
    IF Len(sortedDates) > 0
    THEN [longestStreak |-> LongestStreakLoop(sortedDates, 2, 0, 1),
          currentStreak |->
             IF today - sortedDates[Len(sortedDates)] <= 1
             THEN CurrentStreakLoop(sortedDates, Len(sortedDates) - 1, 1)
             ELSE 0]
    ELSE [longestStreak |-> 0, currentStreak |-> 0]

\* one second, in the unit reply latencies are kept in: halves of a
\* millisecond, so that secs = ms / 1000 and the mean of two samples are exact
Second == 2000

\* the reply test of the loop; prev and m both carry their normalised sender
IsReply(prev, m) ==
    /\ Truthy(m.from) /\ prev # <<>> /\ Truthy(prev[1].from)
    /\ ~m.isSystem /\ ~prev[1].isSystem
    /\ prev[1].from # m.from

\* secs = (m.timestamp.getTime() - prev.timestamp.getTime()) / 1000
ReplySecs(prev, m) == (m.timestamp - prev[1].timestamp) * (Second \div 1000)

\* secs >= 0 && secs <= 86400, tested on the milliseconds
ReplyCounts(prev, m) ==
    /\ IsReply(prev, m)
    /\ m.timestamp - prev[1].timestamp >= 0
    /\ m.timestamp - prev[1].timestamp <= 86400 * 1000

\* `${prev.from}|${m.from}`
PairKey(prev, m) == prev[1].from \o <<"|">> \o m.from

PairLatenciesAfter(pairLatencies, prev, m) ==
    IF ReplyCounts(prev, m)
    THEN ArrSet(pairLatencies, PairKey(prev, m),
                Append(ArrGet(pairLatencies, PairKey(prev, m)), ReplySecs(prev, m)))
    ELSE pairLatencies

ResponseSamplesAfter(responseSamplesByUser, prev, m) ==
    IF ReplyCounts(prev, m)
    THEN ArrSet(responseSamplesByUser, m.from,
                Append(ArrGet(responseSamplesByUser, m.from), ReplySecs(prev, m)))
    ELSE responseSamplesByUser

\* the word counts of computeMetrics: wordCounts and perUserWords

MAX_TOP_WORDS == 50
MAX_TOP_WORDS_PER_USER == 30
MIN_WORD_LENGTH == 3

STOPWORDS ==
    { <<"t","h","e">>, <<"a">>, <<"a","n">>, <<"a","n","d">>, <<"o","r">>, <<"b","u","t">>, <<"i","f">>, <<"t","h","e","n">>, <<"e","l","s","e">>,
      <<"s","o">>, <<"b","e","c","a","u","s","e">>, <<"i">>, <<"y","o","u">>, <<"h","e">>, <<"s","h","e">>, <<"i","t">>, <<"w","e">>,
      <<"t","h","e","y">>, <<"m","e">>, <<"h","i","m">>, <<"h","e","r">>, <<"t","h","e","m">>, <<"m","y">>, <<"y","o","u","r">>, <<"o","u","r">>,
      <<"t","h","e","i","r">>, <<"i","s">>, <<"a","m">>, <<"a","r","e">>, <<"w","a","s">>, <<"w","e","r","e">>, <<"b","e">>, <<"b","e","e","n">>,
      <<"b","e","i","n","g">>, <<"t","o">>, <<"o","f">>, <<"i","n">>, <<"o","n">>, <<"f","o","r">>, <<"w","i","t","h">>, <<"a","t">>, <<"b","y">>,
      <<"f","r","o","m">>, <<"a","s">>, <<"t","h","a","t">>, <<"t","h","i","s">>, <<"t","h","e","s","e">>, <<"t","h","o","s","e">>, <<"n","o","t">>,
      <<"n","o">>, <<"y","e","s">>, <<"d","o">>, <<"d","o","e","s">>, <<"d","i","d">>, <<"d","o","i","n","g">>, <<"d","o","n","e">>, <<"c","a","n">>,
      <<"c","o","u","l","d">>, <<"w","i","l","l">>, <<"w","o","u","l","d">>, <<"s","h","a","l","l">>, <<"s","h","o","u","l","d">>,
      <<"h","a","v","e">>, <<"h","a","s">>, <<"h","a","d">>, <<"h","a","v","i","n","g">>, <<"w","h","a","t">>, <<"w","h","i","c","h">>,
      <<"w","h","o">>, <<"w","h","o","m">>, <<"w","h","o","s","e">>, <<"w","h","e","n">>, <<"w","h","e","r","e">>, <<"w","h","y">>, <<"h","o","w">> }

EGYPTIAN_ARABIZI_ALLOW ==
    { <<"m","a","b","r","o","u","k">>, <<"m","a","b","r","u","k">>, <<"m","a","b","r","o","o","k">>, <<"a","l","f","m","a","b","r","o","u","k">>,
      <<"h","a","b","i","b","i">>, <<"h","a","b","i","b","t","i">>, <<"a","l","b","i">>, <<"a","l","b">>, <<"g","a","m","e","d">>,
      <<"g","a","m","d","a">>, <<"g","a","m","e","d","a">>, <<"g","d","n">>, <<"k","e","t","e","e","r">>, <<"k","t","e","e","r">>,
      <<"k","t","i","r">>, <<"s","h","w","a","y","a">>, <<"s","h","w","y","a">>, <<"s","h","w","a","i","y","a">>,
      <<"d","e","l","w","a","2","t","y">>, <<"d","e","l","w","a","2","t","i">>, <<"d","i","l","w","a","2","t","i">>, <<"d","e","l","w","2","t","i">>,
      <<"d","e","l","w","a","t","i">>, <<"3","a","n","d","a","k">>, <<"3","a","n","d","e","k">>, <<"3","a","n","d","a","h","a">>,
      <<"3","a","n","d","o">>, <<"3","a","n","d","e","n","a">>, <<"3","a","n","d","i">>, <<"3","a","l","e","h">>, <<"3","a","l","e","i","k">>,
      <<"3","a","l","a">>, <<"3","a","r","e","f">>, <<"3","a","r","f","a">>, <<"3","e","i","b">>, <<"3","o","m","r","i">>,
      <<"3","o","m","r","a","k">>, <<"y","a","3","n","i">>, <<"y","a","a","n","i">>, <<"y","a","3","n","e">>, <<"b","a","s">>,
      <<"a","s","l","a","n">>, <<"t","a","b">>, <<"t","a","y","e","b">>, <<"t","a","y","y","e","b">>, <<"t","a","y","i","b">>, <<"s","a","h">>,
      <<"s","a","7">>, <<"a","w","y">>, <<"a","w","i">>, <<"a","y","w","a">>, <<"a","i","w","a">>, <<"l","a","2">>, <<"l","a","a">>,
      <<"m","a","s","h","y">>, <<"m","e","s","h">>, <<"m","i","s","h">>, <<"k","h","a","l","a","s">>, <<"f","e">>, <<"f","i">>, <<"f","i","h">>,
      <<"l","e","h">>, <<"l","e","e","h">>, <<"l","y","h">>, <<"d","a">>, <<"d","a","h">>, <<"d","e","e">>, <<"d","i">>, <<"d","y">>,
      <<"d","o","l">>, <<"a","n","a">>, <<"e","n","t","a">>, <<"e","n","t","y">>, <<"e","n","t","i">>, <<"e","h">>, <<"e","i","h">>,
      <<"k","e","d","a">>, <<"k","i","d","a">>, <<"s","h","o","k","r","a","n">>, <<"s","h","u","k","r","a","n">>, <<"s","a","b","a","h">>,
      <<"m","a","s","a">>, <<"s","a","b","a","7">>, <<"m","a","s","a","2">>, <<"b","o","k","r","a">>, <<"b","u","k","r","a">>,
      <<"n","a","h","a","r","d","a">>, <<"n","h","a","r","d","a">>, <<"e","n","a","h","a","r","d","a">>, <<"e","l","n","a","h","a","r","d","a">>,
      <<"3","a","s","h","a","n">>, <<"a","s","h","a","n">>, <<"3","s","h","a","n">> }

SYSTEM_EXCLUDES ==
    { <<"o","m","i","t","t","e","d">>, <<"i","m","a","g","e">>, <<"v","i","d","e","o">>, <<"a","u","d","i","o">>, <<"s","t","i","c","k","e","r">>,
      <<"g","i","f">>, <<"d","o","c","u","m","e","n","t">>, <<"e","d","i","t","e","d">>, <<"h","t","t","p","s">>, <<"h","t","t","p">>,
      <<"w","w","w">>, <<"c","o","m">>, <<"o","r","g">>, <<"n","e","t">>, <<"c","o">>, <<"u","k">>, <<"c","a">>, <<"a","u">>, <<"d","e">>,
      <<"f","r">>, <<"e","s">>, <<"i","t">>, <<"r","u">>, <<"j","p">>, <<"c","n">>, <<"i","n">>, <<"b","r">>, <<"m","x">>, <<"a","r">>, <<"c","l">>,
      <<"p","e">>, <<"v","e">>, <<"e","c">>, <<"b","o">>, <<"p","y">>, <<"u","y">>, <<"i","o">>, <<"m","e">>, <<"l","y">>, <<"t","v">>, <<"c","c">>,
      <<"t","k">>, <<"m","l">>, <<"g","a">>, <<"c","f">>, <<"c","d">>, <<"c","m">>, <<"c","i">>, <<"s","n">>, <<"m","g">>, <<"b","f">>, <<"n","e">>,
      <<"t","d">>, <<"t","g">>, <<"b","j">>, <<"g","n">>, <<"g","w">>, <<"l","r">>, <<"s","l">>, <<"g","m">>, <<"g","h">>, <<"n","g">>, <<"b","i">>,
      <<"r","w">>, <<"u","g">>, <<"k","e">>, <<"t","z">>, <<"z","m">>, <<"m","w">>, <<"s","z">>, <<"l","s">>, <<"b","w">>, <<"n","a">>, <<"z","a">>,
      <<"z","w">>, <<"a","o">>, <<"m","z">>, <<"m","u">>, <<"s","c">>, <<"k","m">>, <<"y","t">>, <<"r","e">>, <<"d","j">>, <<"s","o">>, <<"e","t">>,
      <<"e","r">>, <<"s","d">>, <<"s","s">>, <<"e","g">>, <<"t","n">>, <<"d","z">>, <<"m","a">>, <<"e","h">>, <<"m","r">> }

\* LATIN_WORD_REGEX: /^[A-Za-z][A-Za-z'-]*$/
IsLatinWord(tok) ==
    /\ tok # <<>> /\ IsLetter(tok[1])
    /\ \A i \in 1..Len(tok) : IsLetter(tok[i]) \/ tok[i] \in {"'", "-"}

\* /\d/.test(tok)
HasDigit(tok) == \E i \in 1..Len(tok) : tok[i] \in Range(Digits)

\* name.split(' ') of the sender's normalised, lowercased name
nameParts(from) == Range(Split(toLowerCase(normaliseParticipantName(from)), " "))

\* the predicate of tokens.filter: the tests in the order of the code
KeepsToken(tok, m) ==
    IF ~IsLatinWord(tok) THEN FALSE
    ELSE IF Len(tok) < MIN_WORD_LENGTH THEN FALSE
    ELSE IF HasDigit(tok) THEN FALSE
    ELSE IF tok \in EGYPTIAN_ARABIZI_ALLOW THEN TRUE
    ELSE IF tok \in STOPWORDS THEN FALSE
    ELSE IF Truthy(m.from) /\ tok \in nameParts(m.from) THEN FALSE
    ELSE tok \notin SYSTEM_EXCLUDES

RECURSIVE FilterTokens(_, _)
FilterTokens(tokens, m) ==
    IF tokens = <<>> THEN <<>>
    ELSE (IF KeepsToken(Head(tokens), m) THEN <<Head(tokens)>> ELSE <<>>)
         \o FilterTokens(Tail(tokens), m)

\* const filtered = tokens.filter(...)
filtered(m) == FilterTokens(tokeniseWords(VisibleText(m), m.isSystem), m)

\* map.set(w, (map.get(w) ?? 0) + 1) on a Map kept as its entries in
\* insertion order
CountWord(counts, w) ==
    IF \E i \in 1..Len(counts) : counts[i].word = w
    THEN [i \in 1..Len(counts) |->
            IF counts[i].word = w THEN [counts[i] EXCEPT !.count = @ + 1]
            ELSE counts[i]]
    ELSE Append(counts, [word |-> w, count |-> 1])

RECURSIVE CountWords(_, _)
\* for (const w of filtered) ...
CountWords(counts, words) ==
    IF words = <<>> THEN counts
    ELSE CountWords(CountWord(counts, Head(words)), Tail(words))

\* perUserWords after a message: the entry of userKey is made even when no
\* word is counted
PerUserWordsAfter(perUserWords, m) ==
    LET userKey == UserKey(m)
        withKey == IF \E i \in 1..Len(perUserWords) : perUserWords[i].user = userKey
                   THEN perUserWords
                   ELSE Append(perUserWords, [user |-> userKey, words |-> <<>>])
    IN  [i \in 1..Len(withKey) |->
            IF withKey[i].user = userKey
            THEN [withKey[i] EXCEPT !.words = CountWords(@, filtered(m))]
            ELSE withKey[i]]

RECURSIVE InsertByCount(_, _)
InsertByCount(sorted, entry) ==
    IF sorted = <<>> THEN <<entry>>
    ELSE IF entry.count > Head(sorted).count THEN <<entry>> \o sorted
    ELSE <<Head(sorted)>> \o InsertByCount(Tail(sorted), entry)
RECURSIVE SortByCount(_)
\* .sort((a, b) => b[1] - a[1]), a stable sort
SortByCount(entries) ==
    IF entries = <<>> THEN <<>>
    ELSE InsertByCount(SortByCount(SubSeq(entries, 1, Len(entries) - 1)),
                       entries[Len(entries)])

\* Array.from(map.entries()).sort(...).slice(0, max)
TopWords(counts, max) ==
    SubSeq(SortByCount(counts), 1, IF Len(counts) < max THEN Len(counts) ELSE max)

\* byUser[user].topWords, [] for a user without an entry in perUserWords
UserTopWords(perUserWords, user) ==
    IF \E i \in 1..Len(perUserWords) : perUserWords[i].user = user
    THEN TopWords(perUserWords[CHOOSE i \in 1..Len(perUserWords) :
                                    perUserWords[i].user = user].words,
                  MAX_TOP_WORDS_PER_USER)
    ELSE <<>>

\* the median of a sorted array: the middle sample, or the mean of the two
\* middle samples
MedianOfSorted(sorted) ==
    IF Len(sorted) % 2 = 1 THEN sorted[(Len(sorted) \div 2) + 1]
    ELSE (sorted[Len(sorted) \div 2] + sorted[(Len(sorted) \div 2) + 1]) \div 2

Median(arr) == MedianOfSorted(SortNumbers(arr))

\* the response-time summary and the streaks of one byUser entry
UserSummary(bu, topWords, samples, sortedDates, today) ==
    [user |-> bu.user, messages |-> bu.messages, words |-> bu.words,
     characters |-> bu.characters, emojis |-> bu.emojis,
     mediaNotices |-> bu.mediaNotices, links |-> bu.links,
     topWords |-> topWords,
     medianResponseSec |-> IF Len(samples) > 0 THEN Median(samples) ELSE 0,
     responseCount |-> Len(samples),
     longestStreak |-> Streaks(sortedDates, today).longestStreak,
     currentStreak |-> Streaks(sortedDates, today).currentStreak]

\* the loop over Object.entries(byUser)
ByUserSummaries(acc) ==
    [i \in 1..Len(acc.byUser) |->
        UserSummary(acc.byUser[i],
                    UserTopWords(acc.perUserWords, acc.byUser[i].user),
                    ArrGet(acc.responseSamplesByUser, acc.byUser[i].user),
                    SortNumbers(ArrGet(acc.perUserDailyActivity, acc.byUser[i].user)),
                    DateKey(WallClock))]

RECURSIVE InsertBySamples(_, _)
InsertBySamples(sorted, entry) ==
    IF sorted = <<>> THEN <<entry>>
    ELSE IF entry.samples > Head(sorted).samples THEN <<entry>> \o sorted
    ELSE <<Head(sorted)>> \o InsertBySamples(Tail(sorted), entry)
RECURSIVE SortBySamples(_)
\* .sort((a, b) => b.samples - a.samples), a stable sort
SortBySamples(entries) ==
    IF entries = <<>> THEN <<>>
    ELSE InsertBySamples(SortBySamples(SubSeq(entries, 1, Len(entries) - 1)),
                         entries[Len(entries)])

\* one entry of pairwiseReplyLatency; [from, to] = key.split("|")
PairSummary(key, parts, arr) ==
    [from |-> parts[1], to |-> IF Len(parts) >= 2 THEN parts[2] ELSE Undefined,
     medianSec |-> Median(arr), samples |-> Len(arr)]

PairwiseReplyLatency(pairLatencies) ==
    SortBySamples([i \in 1..Len(pairLatencies) |->
                      PairSummary(pairLatencies[i].key,
                                  Split(pairLatencies[i].key, "|"),
                                  pairLatencies[i].arr)])

\* the aggregates before the first message
MetricsStart ==
    [totals |-> [messages |-> 0, words |-> 0, characters |-> 0, emojis |-> 0,
                 mediaNotices |-> 0, links |-> 0],
     byUser |-> <<>>, sessions |-> <<>>, messageData |-> <<>>, prev |-> <<>>,
     timeSpentMs |-> 0, perUserDailyActivity |-> <<>>, pairLatencies |-> <<>>,
     responseSamplesByUser |-> <<>>, wordCounts |-> <<>>, perUserWords |-> <<>>]

\* one turn of the loop over the messages
MetricsStep(acc, m, opts, platform) ==
    LET sessions == SessionsAfter(acc.sessions, m,
                        Coalesce(opts.sessionGapMs, DEFAULT_SESSION_GAP_MS), platform)
    IN  [totals |-> TotalsAfter(acc.totals, m),
         byUser |-> ByUserAfter(acc.byUser, m),
         sessions |-> sessions,
         messageData |-> Append(acc.messageData,
                            [timestamp |-> m.timestamp, from |-> m.from,
                             text |-> m.text, isSystem |-> m.isSystem,
                             isMediaNotice |-> m.isMediaNotice,
                             sessionIndex |-> Len(sessions) - 1,
                             platform |-> m.platform]),
         prev |-> <<MessageAfter(m)>>,
         timeSpentMs |-> TimeSpentAfter(acc.timeSpentMs, acc.prev, m, opts),
         perUserDailyActivity |-> DailyActivityAfter(acc.perUserDailyActivity, m),
         pairLatencies |-> PairLatenciesAfter(acc.pairLatencies, acc.prev, MessageAfter(m)),
         responseSamplesByUser |->
            ResponseSamplesAfter(acc.responseSamplesByUser, acc.prev, MessageAfter(m)),
         wordCounts |-> CountWords(acc.wordCounts, filtered(m)),
         perUserWords |-> PerUserWordsAfter(acc.perUserWords, m)]

\* what computeMetrics returns once the loop is over
MetricsResult(acc) ==
    [totals |-> acc.totals,
     byUser |-> ByUserSummaries(acc),
     timeSpentMs |-> acc.timeSpentMs,
     topWords |-> TopWords(acc.wordCounts, MAX_TOP_WORDS),
     pairwiseReplyLatency |-> PairwiseReplyLatency(acc.pairLatencies),
     sessions |-> [i \in 1..Len(acc.sessions) |->
                    [start |-> acc.sessions[i].start, end |-> acc.sessions[i].end,
                     durationMs |-> acc.sessions[i].end - acc.sessions[i].start,
                     messages |-> acc.sessions[i].count,
                     participants |-> acc.sessions[i].participants,
                     platform |-> acc.sessions[i].platform]],
     messages |-> acc.messageData]

RECURSIVE MetricsLoop(_, _, _, _)
MetricsLoop(acc, messages, opts, platform) ==
    IF messages = <<>> THEN acc
    ELSE MetricsLoop(MetricsStep(acc, Head(messages), opts, platform),
                     Tail(messages), opts, platform)

\* computeMetrics(parsedChat, options, platform), as a function of its arguments
computeMetrics(parsedChat, opts, platform) ==
    MetricsResult(MetricsLoop(MetricsStart, parsedChat.messages, opts, platform))

\* the chat as computeMetrics leaves it
ChatAfterMetrics(parsedChat) ==
    [parsedChat EXCEPT !.messages =
        [i \in 1..Len(parsedChat.messages) |-> MessageAfter(parsedChat.messages[i])]]

ProcessMessage ==
    /\ mChat # <<>> /\ metrics = <<>>
    /\ mIdx < Len(mChat[1].messages)
    /\ LET m == mChat[1].messages[mIdx + 1]
       IN  /\ mAcc' = <<MetricsStep(mAcc[1], m, mOpts[1], mOpts[1].platform)>>
           /\ mChat' = [mChat EXCEPT ![1].messages[mIdx + 1] = MessageAfter(m)]
    /\ mIdx' = mIdx + 1
    /\ UNCHANGED <<mOpts, metrics, timezoneOffsetMs, emojiVars>>
    /\ UNCHANGED <<dateVars, lineVars, pipeVars>>

ReturnMetrics ==
    /\ mChat # <<>> /\ metrics = <<>>
    /\ mIdx = Len(mChat[1].messages)
    /\ metrics' = <<MetricsResult(mAcc[1])>>
    /\ UNCHANGED <<mChat, mOpts, mIdx, mAcc, timezoneOffsetMs, emojiVars>>
    /\ UNCHANGED <<dateVars, lineVars, pipeVars>>

----------------------------------------------------------------------------
(* Measuring one chat: computeMetrics message by message *)

\* the most messages of a measured chat
MaxMessages == 3

Jan02At(hour, minute) ==
    [dayOrMonth |-> 2, monthOrDay |-> 1, year |-> 2024, hour |-> hour,
     minute |-> minute, second |-> NoSecond, ampm |-> Undefined]

MetricLines ==
    { WaLine(0, <<Jan02At(10, 0)>>, <<"A","l",":"," ","h","i"," ",EMOJI,EMOJI,"?">>),
      WaLine(0, <<Jan02At(10, 0)>>, <<"B","o",":"," ","@","A","l"," ","y","o">>),
      WaLine(0, <<Jan02At(10, 45)>>, <<"B","o",":"," ","i","m","a","g","e"," ","o","m","i","t","t","e","d">>),
      WaLine(0, <<Jan02At(10, 45)>>, <<"A","l"," ","l","e","f","t">>),
      WaLine(0, <<Jan02At(11, 30)>>, <<"A","l",":"," ","i","t","'","s"," ","o","k">>),
      WaLine(0, <<Jan02At(11, 31)>>, <<"c","o","n","s","t","r","u","c","t","o","r",":"," ","s","e","e"," ","h","t","t","p",":","/","/","x",".","y"," ","!">>) }

IgText(sender, ts, content) ==
    [sender_name |-> sender, timestamp_ms |-> ts, content |-> content, photos |-> 0,
     videos |-> 0, audio_files |-> 0, share |-> <<>>, call_duration |-> -1]

MetricIgMessages ==
    { IgText(<<"A","l">>, 90000000, <<"h","i">>),
      [IgText(<<"B","o">>, 92700000, Undefined) EXCEPT
            !.share = << <<EMOJI, " ", "h","t","t","p",":","/","/","x",".","y">> >>],
      [IgText(<<"A","l">>, 95400001, Undefined) EXCEPT !.photos = 1] }

MetricChats ==
    { parseWhatsApp(lines) : lines \in SeqsUpTo(MetricLines, MaxMessages) }
    \cup { parseInstagram([participants |-> <<<<"A","l">>, <<"B","o">>>>, messages |-> msgs], <<"i","n","b","o","x">>) :
            msgs \in SeqsUpTo(MetricIgMessages, MaxMessages) }

\* the options and platform argument of a call: left out, as
\* computeHierarchicalAnalysis passes them, and a caller's own
MetricOptions(chat) ==
    { [gapMs |-> <<>>, sessionGapMs |-> <<>>, countFullGap |-> <<>>,
       platform |-> "undefined"],
      [gapMs |-> <<DEFAULT_ENGAGEMENT_GAP_MS>>,
       sessionGapMs |-> <<DEFAULT_SESSION_GAP_MS>>, countFullGap |-> <<TRUE>>,
       platform |-> chat.platform],
      [gapMs |-> <<DEFAULT_ONE_MINUTE_MS>>, sessionGapMs |-> <<0>>,
       countFullGap |-> <<FALSE>>, platform |-> chat.platform] }

InitMetrics ==
    /\ DateIdle /\ LinesIdle /\ PipeIdle
    /\ \E chat \in MetricChats :
            /\ mChat = <<chat>>
            /\ mOpts \in {<<o>> : o \in MetricOptions(chat)}
    /\ mIdx = 0
    /\ mAcc = <<MetricsStart>>
    /\ metrics = <<>>
    /\ timezoneOffsetMs = 0
    /\ EmojiIdle

NextMetrics == ProcessMessage \/ ReturnMetrics

SpecMetrics == InitMetrics /\ [][NextMetrics]_vars

TotalFields == {"messages", "words", "characters", "emojis", "mediaNotices", "links"}

\* C3: in the Metrics computeMetrics returns, each of totals.messages, words,
\* characters, emojis, mediaNotices and links is the sum of that field over
\* all byUser entries, the __system__ entry included.
C3_TotalsAreSums ==
    metrics # <<>> =>
        \A f \in TotalFields :
            metrics[1].totals[f]
                = Sum([i \in 1..Len(metrics[1].byUser) |-> metrics[1].byUser[i][f]])

\* C3 for chats none of whose senders is named like a member of
\* Object.prototype
C3_TotalsAreSumsOwnKeys ==
    (metrics # <<>> /\ \A i \in 1..Len(mChat[1].messages) :
                            UserKey(mChat[1].messages[i]) \notin ProtoKeys)
        => \A f \in TotalFields :
            metrics[1].totals[f]
                = Sum([i \in 1..Len(metrics[1].byUser) |-> metrics[1].byUser[i][f]])

InSession(s, ts) == s.start <= ts /\ ts <= s.end

\* C4: for a timestamp-sorted chat every message belongs to exactly one
\* session: the session counts add up to totals.messages, each flattened
\* message carries the index of its session and the indices never decrease,
\* and each session counts the messages whose timestamp lies in [start, end].
C4_SessionsPartition ==
    (metrics # <<>> /\ IsSorted(mChat[1].messages)) =>
        LET out == metrics[1]
            msgs == mChat[1].messages
        IN  /\ Sum([s \in 1..Len(out.sessions) |-> out.sessions[s].messages])
                    = out.totals.messages
            /\ Len(out.messages) = Len(msgs)
            /\ \A i \in 1..Len(msgs) :
                    /\ out.messages[i].sessionIndex \in 0..(Len(out.sessions) - 1)
                    /\ InSession(out.sessions[out.messages[i].sessionIndex + 1],
                                 msgs[i].timestamp)
                    /\ Cardinality({s \in 1..Len(out.sessions) :
                            InSession(out.sessions[s], msgs[i].timestamp)}) = 1
                    /\ i > 1 => out.messages[i - 1].sessionIndex
                                    <= out.messages[i].sessionIndex
            /\ \A s \in 1..Len(out.sessions) :
                    out.sessions[s].messages
                        = Cardinality({i \in 1..Len(msgs) :
                                InSession(out.sessions[s], msgs[i].timestamp)})

\* C4 witness: three sorted messages have been split into two sessions, one
\* of them holding two messages
C4_Witness ==
    /\ metrics # <<>>
    /\ IsSorted(mChat[1].messages)
    /\ Len(mChat[1].messages) = 3
    /\ Len(metrics[1].sessions) = 2
    /\ \E s \in 1..2 : /\ metrics[1].sessions[s].messages = 2
                       /\ metrics[1].sessions[s].durationMs > 0

\* the gap that separates two sessions in the running call
SessionGapMs == Coalesce(mOpts[1].sessionGapMs, DEFAULT_SESSION_GAP_MS)

\* C18: a message opens a session exactly when none is open or its timestamp
\* exceeds that of the message before it by more than sessionGapMs; the new
\* session starts and ends at the message, counts it and has its sender as
\* initiator.  Otherwise, a gap equal to sessionGapMs included, the open
\* session is extended: its end is the message's timestamp, its count grows
\* by one, the sender joins its participants, and its start and initiator
\* stay.
C18_SessionBoundaries ==
    [][ (mChat # <<>> /\ mIdx' = mIdx + 1)
        => LET m == mChat[1].messages[mIdx + 1]
               before == mAcc[1].sessions
               after == mAcc'[1].sessions
               last == after[Len(after)]
               opens == \/ mIdx = 0
                        \/ m.timestamp - mChat[1].messages[mIdx].timestamp > SessionGapMs
           IN  IF opens
               THEN /\ after = Append(before, last)
                    /\ last.start = m.timestamp /\ last.end = m.timestamp
                    /\ last.count = 1
                    /\ last.initiator = m.from
                    /\ last.participants = IF Truthy(m.from) THEN <<m.from>> ELSE <<>>
               ELSE /\ Len(after) = Len(before)
                    /\ SubSeq(after, 1, Len(after) - 1) = SubSeq(before, 1, Len(before) - 1)
                    /\ last.end = m.timestamp
                    /\ last.count = before[Len(before)].count + 1
                    /\ last.start = before[Len(before)].start
                    /\ last.initiator = before[Len(before)].initiator
                    /\ last.participants =
                          IF Truthy(m.from) THEN SetAdd(before[Len(before)].participants, m.from)
                          ELSE before[Len(before)].participants ]_vars

\* C18 witness: the second message came exactly sessionGapMs after the first
\* and from someone else, and the one session holds both
C18_Witness ==
    /\ mIdx = 2
    /\ mChat[1].messages[2].timestamp - mChat[1].messages[1].timestamp = SessionGapMs
    /\ SessionGapMs > 0
    /\ Len(mAcc[1].sessions) = 1
    /\ mAcc[1].sessions[1].count = 2
    /\ Len(mAcc[1].sessions[1].participants) = 2
    /\ mAcc[1].sessions[1].end = mChat[1].messages[2].timestamp

\* the messages of the measured chat that answer the message before them:
\* both with a sender, neither a system message, the senders different and
\* the gap within a day
Replies(msgs) ==
    { i \in 2..Len(msgs) :
        /\ Truthy(msgs[i].from) /\ Truthy(msgs[i - 1].from)
        /\ ~msgs[i].isSystem /\ ~msgs[i - 1].isSystem
        /\ msgs[i].from # msgs[i - 1].from
        /\ msgs[i].timestamp - msgs[i - 1].timestamp >= 0
        /\ msgs[i].timestamp - msgs[i - 1].timestamp <= 86400 * 1000 }

Senders(msgs) == {msgs[i].from : i \in {j \in 1..Len(msgs) : Truthy(msgs[j].from)}}

\* the samples counted once per pair and once per answering sender
ReplySamplesCounted(msgs, out) ==
    /\ \A e \in Range(out.pairwiseReplyLatency) :
          e.samples = Cardinality({i \in Replies(msgs) :
                            msgs[i - 1].from = e.from /\ msgs[i].from = e.to})
    /\ Sum([e \in 1..Len(out.pairwiseReplyLatency) |->
                out.pairwiseReplyLatency[e].samples]) = Cardinality(Replies(msgs))
    /\ \A u \in Senders(msgs) :
          /\ \E e \in Range(out.byUser) : e.user = u
          /\ \A e \in Range(out.byUser) :
                e.user = u => e.responseCount
                                = Cardinality({i \in Replies(msgs) : msgs[i].from = u})
    /\ Sum([e \in 1..Len(out.byUser) |-> out.byUser[e].responseCount])
          = Sum([e \in 1..Len(out.pairwiseReplyLatency) |->
                    out.pairwiseReplyLatency[e].samples])

\* C19: a message yields a reply-latency sample exactly when it and the
\* message before it have a sender, neither is a system message, the
\* senders differ and the gap is within 0 and 86400 seconds; the sample is
\* counted once for the pair and once for the answering sender, so that the
\* responseCount of byUser add up to the samples of pairwiseReplyLatency.
C19_ReplySamples ==
    metrics # <<>> => ReplySamplesCounted(mChat[1].messages, metrics[1])

\* the same for the chats none of whose senders is named like a property of
\* Object.prototype
C19_ReplySamplesOwnKeys ==
    (metrics # <<>> /\ Senders(mChat[1].messages) \cap ProtoKeys = {})
        => ReplySamplesCounted(mChat[1].messages, metrics[1])

OwnEntry(byUser, user) ==
    IF \E i \in 1..Len(byUser) : byUser[i].user = user
    THEN byUser[CHOOSE i \in 1..Len(byUser) : byUser[i].user = user]
    ELSE NewUserEntry(user)

\* C5: a message with isMediaNotice = true adds nothing to the characters,
\* words and emojis of totals and of its sender's byUser entry, whatever its
\* text, and adds exactly 1 to totals.messages and totals.mediaNotices.
C5_MediaNoticeCountsNothing ==
    [][ (mChat # <<>> /\ mIdx' = mIdx + 1 /\ mChat[1].messages[mIdx + 1].isMediaNotice)
        => LET m == mChat[1].messages[mIdx + 1]
               before == mAcc[1]
               after == mAcc'[1]
           IN  /\ after.totals.characters = before.totals.characters
               /\ after.totals.words = before.totals.words
               /\ after.totals.emojis = before.totals.emojis
               /\ after.totals.messages = before.totals.messages + 1
               /\ after.totals.mediaNotices = before.totals.mediaNotices + 1
               /\ \A f \in {"characters", "words", "emojis"} :
                    OwnEntry(after.byUser, UserKey(m))[f]
                        = OwnEntry(before.byUser, UserKey(m))[f] ]_vars

\* C5 witness: the loop has just counted a media notice whose text holds an
\* emoji and a link, and no character, word, emoji or link has been counted
C5_Witness ==
    /\ mIdx > 0 /\ mChat # <<>>
    /\ mChat[1].messages[mIdx].isMediaNotice
    /\ EMOJI \in Range(mChat[1].messages[mIdx].text)
    /\ mAcc[1].totals.mediaNotices = mIdx
    /\ mAcc[1].totals.characters = 0
    /\ mAcc[1].totals.emojis = 0

----------------------------------------------------------------------------
(* name-normaliser: normaliseParticipantNames, findBestMatch *)

\* PLATFORM_PRIORITY[platform] || 999
PlatformPriority(platform) ==
    CASE platform = "whatsapp" -> 1
      [] platform = "instagram" -> 2
      [] OTHER -> 999

RECURSIVE NamesByPlatform(_, _)
\* namesByPlatform: a Map from platform to the Set of its names, both in
\* insertion order
NamesByPlatform(chats, map) ==
    IF chats = <<>> THEN map
    ELSE LET chat == Head(chats)
             at == {i \in 1..Len(map) : map[i].platform = chat.platform}
             withKey == IF at = {}
                        THEN Append(map, [platform |-> chat.platform, names |-> <<>>])
                        ELSE map
             k == CHOOSE i \in 1..Len(withKey) : withKey[i].platform = chat.platform
         IN  NamesByPlatform(Tail(chats),
                [withKey EXCEPT ![k].names = SetAddAll(@, chat.participants)])

PlatformsOfName(name, namesByPlatform) ==
    {i \in 1..Len(namesByPlatform) : name \in Range(namesByPlatform[i].names)}

getPlatformForName(name, namesByPlatform) ==
    LET at == PlatformsOfName(name, namesByPlatform)
    IN  IF at = {} THEN "unknown"
        ELSE namesByPlatform[CHOOSE i \in at : \A j \in at : i <= j].platform

RECURSIVE InsertByPriority(_, _, _)
InsertByPriority(sorted, name, namesByPlatform) ==
    IF sorted = <<>> THEN <<name>>
    ELSE IF PlatformPriority(getPlatformForName(name, namesByPlatform))
              < PlatformPriority(getPlatformForName(Head(sorted), namesByPlatform))
         THEN <<name>> \o sorted
         ELSE <<Head(sorted)>> \o InsertByPriority(Tail(sorted), name, namesByPlatform)
RECURSIVE SortByPriority(_, _)
\* knownNames.sort((a, b) => priorityA - priorityB), a stable sort
SortByPriority(names, namesByPlatform) ==
    IF names = <<>> THEN <<>>
    ELSE InsertByPriority(SortByPriority(SubSeq(names, 1, Len(names) - 1), namesByPlatform),
                          names[Len(names)], namesByPlatform)

\* the word tests of findBestMatch: the same first name, or the original
\* name inside a word of the known name
WordsMatch(originalLower, originalWords, knownWords) ==
    \/ (originalWords[1] = knownWords[1] /\ JsLength(originalWords[1]) > 2)
    \/ \E w \in 1..Len(knownWords) :
            Includes(knownWords[w], originalLower) /\ JsLength(originalLower) > 2

\* the tests findBestMatch makes on one known name, both names lowered and
\* trimmed
LowerNamesMatch(originalLower, knownLower) ==
    \/ Includes(knownLower, originalLower)
    \/ Includes(originalLower, knownLower)
    \/ WordsMatch(originalLower, Split(originalLower, " "), Split(knownLower, " "))

NamesMatch(originalName, knownName) ==
    LowerNamesMatch(Trim(toLowerCase(originalName)), Trim(toLowerCase(knownName)))

RECURSIVE FirstMatch(_, _)
\* the loop over sortedKnownNames: the first name that matches
FirstMatch(originalName, sortedKnownNames) ==
    IF sortedKnownNames = <<>> THEN <<>>
    ELSE IF NamesMatch(originalName, Head(sortedKnownNames))
         THEN <<Head(sortedKnownNames)>>
         ELSE FirstMatch(originalName, Tail(sortedKnownNames))

\* findBestMatch without its heuristics: no name is ever proposed
findBestMatchNone(originalName, knownNames, namesByPlatform) == <<>>

\* findBestMatch: <<knownName>>, or <<>> for null
findBestMatch(originalName, knownNames, namesByPlatform) ==
    FirstMatch(originalName, SortByPriority(knownNames, namesByPlatform))

\* Map.prototype.get and set on nameMappings, kept in insertion order
MapGet(mappings, name) ==
    LET at == {i \in 1..Len(mappings) : mappings[i].from = name}
    IN  IF at = {} THEN <<>> ELSE <<mappings[CHOOSE i \in at : TRUE].to>>
MapSet(mappings, from, to) ==
    LET at == {i \in 1..Len(mappings) : mappings[i].from = from}
    IN  IF at = {} THEN Append(mappings, [from |-> from, to |-> to])
        ELSE [mappings EXCEPT ![CHOOSE i \in at : TRUE].to = to]

\* askQuestion: the next line typed, trimmed; when the prepared answers run
\* out the user just presses Enter
Answer(st) == IF st.answers = <<>> THEN <<>> ELSE Trim(Head(st.answers))
Asked(st) ==
    [st EXCEPT !.answers = IF @ = <<>> THEN <<>> ELSE Tail(@), !.asked = @ + 1]

\* the mapping findBestMatch's suggestion leads to: the name of the platform
\* with the smaller priority number is the target
SuggestedMapping(originalName, platform, suggestedMatch, namesByPlatform) ==
    IF PlatformPriority(platform)
         < PlatformPriority(getPlatformForName(suggestedMatch, namesByPlatform))
    THEN [from |-> suggestedMatch, to |-> originalName]
    ELSE [from |-> originalName, to |-> suggestedMatch]

Accept(st, mapping) ==
    [st EXCEPT !.nameMappings = MapSet(@, mapping.from, mapping.to),
               !.processedNames = @ \cup {mapping.from, mapping.to}]
KeepSeparate(st, originalName) ==
    [st EXCEPT !.nameMappings = MapSet(@, originalName, originalName),
               !.processedNames = @ \cup {originalName}]

\* one turn of the loop over singlePlatformNames; st holds nameMappings,
\* processedNames and the readline interface
\* the manual question: the name typed is the target unless it is empty or
\* the name itself
AskManual(st, originalName, manualInput) ==
    IF manualInput # <<>> /\ manualInput # originalName
    THEN Accept(Asked(st), [from |-> originalName, to |-> manualInput])
    ELSE KeepSeparate(Asked(st), originalName)

\* the turn for a name with a suggested match
WithSuggestion(st, originalName, mapping, interactive, confirm, asked) ==
    IF ~interactive THEN Accept(st, mapping)
    ELSE IF confirm \in {<<"y">>, <<"y","e","s">>} THEN Accept(asked, mapping)
    ELSE AskManual(asked, originalName, Answer(asked))

\* the turn for a name findBestMatch has nothing for
WithoutSuggestion(st, originalName, interactive) ==
    IF ~interactive THEN KeepSeparate(st, originalName)
    ELSE AskManual(st, originalName, Answer(st))

\* the turn once findBestMatch has answered
Suggested(st, originalName, platform, suggestedMatch, namesByPlatform, interactive) ==
    IF suggestedMatch = <<>> THEN WithoutSuggestion(st, originalName, interactive)
    ELSE WithSuggestion(st, originalName,
                        SuggestedMapping(originalName, platform, suggestedMatch[1],
                                         namesByPlatform),
                        interactive, toLowerCase(Answer(st)), Asked(st))

ResolveName(st, originalName, platform, allNames, namesByPlatform, interactive) ==
    IF originalName \in st.processedNames THEN st
    ELSE Suggested(st, originalName, platform,
                   findBestMatch(originalName,
                                 Filter(allNames, Range(allNames) \ {originalName}),
                                 namesByPlatform),
                   namesByPlatform, interactive)

RECURSIVE ResolveNames(_, _, _, _, _)
ResolveNames(st, names, allNames, namesByPlatform, interactive) ==
    IF names = <<>> THEN st
    ELSE ResolveNames(
            ResolveName(st, Head(names), getPlatformForName(Head(names), namesByPlatform),
                        allNames, namesByPlatform, interactive),
            Tail(names), allNames, namesByPlatform, interactive)

\* got || name
OrName(got, name) == IF got # <<>> /\ Truthy(got[1]) THEN got[1] ELSE name

Mapped(mappings, name) ==
    IF Truthy(name) THEN OrName(MapGet(mappings, name), name) ELSE name

ApplyMappings(chat, mappings) ==
    [chat EXCEPT
        !.participants = ToSet([i \in 1..Len(chat.participants) |->
                                    Mapped(mappings, chat.participants[i])]),
        !.messages = [i \in 1..Len(chat.messages) |->
                        [chat.messages[i] EXCEPT !.from = Mapped(mappings, @)]]]

\* the test that decides whether any mapping is looked for, without its
\* condition
NeedsMappingAlways(totalParticipants, sizes) == TRUE

\* totalParticipants > Math.max(...sizes); Math.max() of nothing is -Infinity
NeedsMapping(totalParticipants, sizes) ==
    \A i \in 1..Len(sizes) : totalParticipants > sizes[i]

\* normaliseParticipantNames(parsedChats, rl): the chats returned, the
\* mappings made and the readline interface afterwards
\* what is returned once the loop over singlePlatformNames has ended
Normalised(chats, readline, end) ==
    [chats |-> [i \in 1..Len(chats) |-> ApplyMappings(chats[i], end.nameMappings)],
     nameMappings |-> end.nameMappings,
     rl |-> IF readline = <<>> THEN <<>>
            ELSE <<[answers |-> end.answers, asked |-> end.asked]>>]

\* nameMappings and processedNames are empty, nothing has been asked
ResolveStart(readline) ==
    [nameMappings |-> <<>>, processedNames |-> {},
     answers |-> IF readline = <<>> THEN <<>> ELSE readline[1].answers,
     asked |-> IF readline = <<>> THEN 0 ELSE readline[1].asked]

SinglePlatformNames(allNames, namesByPlatform) ==
    Filter(allNames, {n \in Range(allNames) :
                        Cardinality(PlatformsOfName(n, namesByPlatform)) = 1})

\* normaliseParticipantNames once allNames and namesByPlatform are collected
NormaliseWith(chats, readline, allNames, namesByPlatform) ==
    IF NeedsMapping(Len(allNames),
                    [i \in 1..Len(namesByPlatform) |-> Len(namesByPlatform[i].names)])
    THEN Normalised(chats, readline,
                    ResolveNames(ResolveStart(readline),
                                 SinglePlatformNames(allNames, namesByPlatform),
                                 allNames, namesByPlatform, readline # <<>>))
    ELSE [chats |-> chats, nameMappings |-> <<>>, rl |-> readline]

normaliseParticipantNames(chats, readline) ==
    NormaliseWith(chats, readline, AllParticipants(chats, <<>>),
                  NamesByPlatform(chats, <<>>))

Resolve ==
    /\ pc = "merged"
    /\ \E out \in {normaliseParticipantNames(mergedChats, rl)} :
           /\ normalisedChats' = out.chats
           /\ nameMappings' = out.nameMappings
           /\ rl' = out.rl
    /\ pc' = "resolved"
    /\ UNCHANGED <<files, fileIdx, parsedChats, parseErrors, relatedGroups,
                   mergedChats, analysis>>
    /\ UNCHANGED <<dateVars, lineVars, metricVars, ownerVars>>

----------------------------------------------------------------------------
(* hierarchical.computer: computeHierarchicalAnalysis *)

HierarchicalOptions(chat) ==
    [gapMs |-> <<DEFAULT_ENGAGEMENT_GAP_MS>>, sessionGapMs |-> <<DEFAULT_SESSION_GAP_MS>>,
     countFullGap |-> <<TRUE>>, platform |-> chat.platform]

\* metrics.byUser[participant] || { messages: 0, ... }: the own entry, the
\* zeros, or for a name Object.prototype answers to a value whose counters
\* are not numbers
PersonData(m, participant) ==
    IF \E i \in 1..Len(m.byUser) : m.byUser[i].user = participant
    THEN [OwnEntry(m.byUser, participant) EXCEPT !.user = "own"]
    ELSE [NewUserEntry(participant) EXCEPT
            !.user = IF participant \in ProtoKeys THEN "NaN" ELSE "zeros"]

ChatsOf(chats, participant) ==
    {i \in 1..Len(chats) : participant \in Range(chats[i].participants)}

RECURSIVE PlatformsIn(_, _, _)
\* the Set of the platforms of the chats listed in idx, in chat order
PlatformsIn(chats, idx, from) ==
    IF from > Len(chats) THEN <<>>
    ELSE LET rest == PlatformsIn(chats, idx, from + 1)
         IN  IF from \in idx
             THEN <<chats[from].platform>>
                    \o Filter(rest, Range(rest) \ {chats[from].platform})
             ELSE rest

SumOver(idx, f(_)) ==
    LET RECURSIVE Go(_)
        Go(S) == IF S = {} THEN 0
                 ELSE LET x == CHOOSE y \in S : TRUE IN f(x) + Go(S \ {x})
    IN  Go(idx)

\* the totals of one participant over the chats listed in idx
PersonTotals(allMetrics, idx, participant) ==
    LET data(i) == PersonData(allMetrics[i], participant)
        msg(i) == data(i).messages
        wrd(i) == data(i).words
        chr(i) == data(i).characters
        emo(i) == data(i).emojis
    IN  [totalMessages |-> SumOver(idx, msg), totalWords |-> SumOver(idx, wrd),
         totalCharacters |-> SumOver(idx, chr), totalEmojis |-> SumOver(idx, emo),
         isNaN |-> \E i \in idx : data(i).user = "NaN"]

RECURSIVE MessagesOfChats(_, _, _)
\* platformChats.flatMap(chat => allMetrics[parsedChats.indexOf(chat)].messages)
MessagesOfChats(allMetrics, idx, from) ==
    IF from > Len(allMetrics) THEN <<>>
    ELSE (IF from \in idx THEN allMetrics[from].messages ELSE <<>>)
         \o MessagesOfChats(allMetrics, idx, from + 1)

\* Math.floor(timeDiff / 1000), in the unit of the latencies
FloorSecs(prevMsg, currentMsg) ==
    ((currentMsg.timestamp - prevMsg.timestamp) \div 1000) * Second

\* currentMsg answers prevMsg for the participant, within 24 hours
IsPlatformResponse(prevMsg, currentMsg, participant) ==
    /\ currentMsg.from = participant
    /\ prevMsg.from # participant
    /\ ~prevMsg.isSystem
    /\ currentMsg.timestamp - prevMsg.timestamp >= 0
    /\ (currentMsg.timestamp - prevMsg.timestamp) \div 1000 <= 24 * 60 * 60

RECURSIVE platformResponseTimes(_, _, _)
\* the loop over platformMessages from index i
platformResponseTimes(platformMessages, participant, i) ==
    IF i > Len(platformMessages) THEN <<>>
    ELSE (IF IsPlatformResponse(platformMessages[i - 1], platformMessages[i], participant)
          THEN <<FloorSecs(platformMessages[i - 1], platformMessages[i])>>
          ELSE <<>>)
         \o platformResponseTimes(platformMessages, participant, i + 1)

\* platformResponseMetrics with the median the chat metrics use
ResponseMetricsAveraged(sorted) ==
    [medianResponseSec |-> IF Len(sorted) > 0 THEN MedianOfSorted(sorted) ELSE 0,
     responseCount |-> Len(sorted)]

\* platformResponseMetrics of the sorted response times
ResponseMetricsOf(sorted) ==
    [medianResponseSec |-> IF Len(sorted) > 0 THEN sorted[(Len(sorted) \div 2) + 1] ELSE 0,
     responseCount |-> Len(sorted)]

\* the response metrics of participant over the chats listed in idx
PlatformResponseMetrics(allMetrics, idx, participant) ==
    ResponseMetricsOf(SortNumbers(
        platformResponseTimes(SortByTimestamp(MessagesOfChats(allMetrics, idx, 1)),
                              participant, 2)))

computeHierarchicalAnalysis(chats) ==
    LET allMetrics == [i \in 1..Len(chats) |->
                          computeMetrics(chats[i], HierarchicalOptions(chats[i]),
                                         chats[i].platform)]
        allParticipants == AllParticipants(chats, <<>>)
        all == 1..Len(chats)
        tm(i) == allMetrics[i].totals.messages
        tw(i) == allMetrics[i].totals.words
        tc(i) == allMetrics[i].totals.characters
        te(i) == allMetrics[i].totals.emojis
        tn(i) == allMetrics[i].totals.mediaNotices
        ts(i) == Len(allMetrics[i].sessions)
    IN  [overview |->
            [totalChats |-> Len(chats),
             totalMessages |-> SumOver(all, tm), totalWords |-> SumOver(all, tw),
             totalCharacters |-> SumOver(all, tc), totalEmojis |-> SumOver(all, te),
             totalMediaNotices |-> SumOver(all, tn), sessions |-> SumOver(all, ts),
             participants |->
                [p \in 1..Len(allParticipants) |->
                    [name |-> allParticipants[p],
                     totals |-> PersonTotals(allMetrics, all, allParticipants[p]),
                     platforms |-> PlatformsIn(chats, ChatsOf(chats, allParticipants[p]), 1)]]],
         perPerson |->
            [p \in 1..Len(allParticipants) |->
                LET participant == allParticipants[p]
                    personChats == ChatsOf(chats, participant)
                    platforms == PlatformsIn(chats, personChats, 1)
                IN  [name |-> participant,
                     totals |-> PersonTotals(allMetrics, personChats, participant),
                     platforms |->
                        [k \in 1..Len(platforms) |->
                            [platform |-> platforms[k],
                             totals |-> PersonTotals(allMetrics,
                                            {i \in personChats :
                                                chats[i].platform = platforms[k]},
                                            participant),
                             responseMetrics |->
                                PlatformResponseMetrics(allMetrics,
                                    {i \in personChats :
                                        chats[i].platform = platforms[k]},
                                    participant)]]]],
         individualChats |->
            [i \in 1..Len(chats) |->
                [title |-> chats[i].title, platform |-> chats[i].platform,
                 participants |-> chats[i].participants, metrics |-> allMetrics[i]]]]

Analyse ==
    /\ pc = "resolved"
    /\ analysis' = <<computeHierarchicalAnalysis(normalisedChats)>>
    /\ normalisedChats' = [i \in 1..Len(normalisedChats) |->
                              ChatAfterMetrics(normalisedChats[i])]
    /\ pc' = "analysed"
    /\ UNCHANGED <<files, fileIdx, parsedChats, parseErrors, relatedGroups,
                   mergedChats, rl, nameMappings>>
    /\ UNCHANGED <<dateVars, lineVars, metricVars, ownerVars>>

----------------------------------------------------------------------------
(* The whole pipeline over several files *)

\* the timestamp prefix "1/13/24, 10:MM"
Jan13At(minute) ==
    [dayOrMonth |-> 1, monthOrDay |-> 13, year |-> 24, hour |-> 10,
     minute |-> minute, second |-> NoSecond, ampm |-> Undefined]

Alice == <<"A","l","i","c","e">>
Bob == <<"B","o","b">>
BobB == <<"B","o","b"," ","B",".">>

\* two WhatsApp exports of the chat between Alice and Bob, and Instagram
\* exports of the same chat
WhatsAppOne == WaExport(<<Jan02, Jan13>>, <<Alice, Bob>>)
WhatsAppTwo ==
    WaExport(<<Jan13At(0), Jan13At(1), Jan13At(2), Jan13At(5)>>, <<Alice, Bob, Alice, Bob>>)
InstagramBobB == IgExport(<<"i","n","b","o","x">>, <<Alice, BobB>>, 93000000)
InstagramBob == IgExport(<<"d","i","r","e","c","t">>, <<Bob, Alice>>, 90000000)
AndroidBob ==
    RawFile(".xml", <<"b","a","c","k","u","p">>, <<>>, <<>>,
            <<[sms |-> <<[date |-> 91000000, type |-> "1",
                          contact_name |-> <<"B","o","b",NBSP,"B",".">>,
                          body |-> <<"h","i">>]>>,
               mms |-> <<>>]>>)

PipeFiles == {WhatsAppOne, WhatsAppTwo, InstagramBobB, InstagramBob, AndroidBob}

\* the readline interface: absent, or the lines the user will type
RlOptions ==
    {<<>>} \cup { <<[answers |-> a, asked |-> 0]>> :
                    a \in { <<>>, <<<<"y">>>>, <<<<" ","Y","e","s"," ">>, <<"y">>>>, <<<<"n">>, <<"B","o","b">>>> } }

InitPipe ==
    /\ DateIdle /\ LinesIdle /\ MetricsIdle /\ OwnerIdle
    /\ files \in SeqsUpTo(PipeFiles, MaxFiles) \ {<<>>}
    /\ pc = "parse"
    /\ fileIdx = 0
    /\ parsedChats = <<>>
    /\ parseErrors = {}
    /\ relatedGroups = <<>>
    /\ mergedChats = <<>>
    /\ rl \in RlOptions
    /\ nameMappings = <<>>
    /\ normalisedChats = <<>>
    /\ analysis = <<>>

NextPipe == ParseFile \/ GroupAndMerge \/ Resolve \/ Analyse

SpecPipe == InitPipe /\ [][NextPipe]_vars

\* the participant-name set each platform present in chats reports
PlatformNameSets(chats) ==
    {Range(e.names) : e \in Range(NamesByPlatform(chats, <<>>))}

SameNamesEverywhere(chats) == Cardinality(PlatformNameSets(chats)) <= 1

NoQuestionAsked == rl = <<>> \/ rl[1].asked = 0

\* C8: when every platform present in the input reports exactly the same
\* participant-name set, normaliseParticipantNames renames nothing: the chats
\* it returns are the chats it was given, no mapping is recorded and the user
\* is asked nothing.
C8_NoRenaming ==
    (pc = "resolved" /\ SameNamesEverywhere(mergedChats))
        => /\ normalisedChats = mergedChats
           /\ nameMappings = <<>>
           /\ NoQuestionAsked

\* two platforms with the same names, and a user ready to answer
C8_Witness ==
    /\ pc = "resolved"
    /\ SameNamesEverywhere(mergedChats)
    /\ Cardinality({mergedChats[i].platform : i \in 1..Len(mergedChats)}) >= 2
    /\ rl # <<>>
    /\ normalisedChats = mergedChats

\* the three files of the scenario, in any order
ScenarioFiles ==
    /\ Len(files) = 3
    /\ Range(files) = {WhatsAppOne, WhatsAppTwo, InstagramBobB}

\* the suggestion is taken: automatically without a readline interface, or
\* by the user's answer to the one question asked (a refusal is always
\* followed by a second question)
MatchAccepted == rl = <<>> \/ rl[1].asked = 1

WhatsAppChats(chats) == {i \in 1..Len(chats) : chats[i].platform = "whatsapp"}

NamesLeft(chats) ==
    UNION {Range(chats[i].participants)
             \cup {chats[i].messages[k].from : k \in 1..Len(chats[i].messages)}
           : i \in 1..Len(chats)}

RawMessageCount(fs, platform) ==
    LET parsed(i) == parseChatFile(fs[i])
        count(i) == IF parsed(i) # <<>> /\ parsed(i)[1].platform = platform
                    THEN Len(parsed(i)[1].messages) ELSE 0
    IN  SumOver(1..Len(fs), count)

\* C9: two WhatsApp exports with participants {Alice, Bob} and one Instagram
\* export with participants {Alice, Bob B.}, in any file order, with the
\* suggested match accepted: the WhatsApp exports become one chat holding the
\* messages of both, "Bob B." is mapped to "Bob" everywhere, and perPerson
\* has exactly the two entries Alice and Bob.
C9_Scenario ==
    (pc = "analysed" /\ ScenarioFiles /\ MatchAccepted)
        => /\ Len(mergedChats) = 2
           /\ Cardinality(WhatsAppChats(mergedChats)) = 1
           /\ \A i \in WhatsAppChats(mergedChats) :
                 Len(mergedChats[i].messages) = RawMessageCount(files, "whatsapp")
           /\ nameMappings = <<[from |-> BobB, to |-> Bob]>>
           /\ NamesLeft(normalisedChats) = {Alice, Bob}
           /\ Len(analysis[1].perPerson) = 2
           /\ {analysis[1].perPerson[p].name : p \in 1..2} = {Alice, Bob}

\* the scenario analysed after the user confirmed the suggestion, the
\* Instagram file first
C9_Witness ==
    /\ pc = "analysed"
    /\ ScenarioFiles
    /\ files[1] = InstagramBobB
    /\ rl # <<>> /\ rl[1].asked = 1
    /\ nameMappings = <<[from |-> BobB, to |-> Bob]>>
    /\ Len(analysis[1].perPerson) = 2

----------------------------------------------------------------------------
(* Streaks: computeMetrics on chats that span several days, run in several
   time zones *)

\* "DD/1/2024, HH:00" of January 2024
JanAt(day, hour) ==
    [dayOrMonth |-> day, monthOrDay |-> 1, year |-> 2024, hour |-> hour,
     minute |-> 0, second |-> NoSecond, ampm |-> Undefined]

StreakLines ==
    { WaLine(0, <<JanAt(17, 9)>>, <<"A","l",":"," ","a">>),
      WaLine(0, <<JanAt(18, 9)>>, <<"A","l",":"," ","b">>),
      WaLine(0, <<JanAt(18, 23)>>, <<"A","l",":"," ","c">>),
      WaLine(0, <<JanAt(20, 9)>>, <<"A","l",":"," ","d">>),
      WaLine(0, <<JanAt(19, 12)>>, <<"B","o",":"," ","e">>),
      WaLine(0, <<JanAt(20, 23)>>, <<"B","o"," ","l","e","f","t">>) }

StreakChats ==
    { parseWhatsApp(lines) : lines \in SeqsUpTo(StreakLines, MaxMessages) \ {<<>>} }

\* Date.getTimezoneOffset() of UTC, of UTC+10 and of UTC-5, in milliseconds
TimezoneOffsets == {0, 0 - 10 * 3600000, 5 * 3600000}

InitStreak ==
    /\ DateIdle /\ LinesIdle /\ PipeIdle
    /\ mChat \in {<<chat>> : chat \in StreakChats}
    /\ mOpts = <<[gapMs |-> <<>>, sessionGapMs |-> <<>>, countFullGap |-> <<>>,
                  platform |-> "undefined"]>>
    /\ mIdx = 0
    /\ mAcc = <<MetricsStart>>
    /\ metrics = <<>>
    /\ timezoneOffsetMs \in TimezoneOffsets
    /\ EmojiIdle

SpecStreak == InitStreak /\ [][NextMetrics]_vars

\* the local calendar date of a timestamp, in days from 1 January 2024
LocalDate(timestamp) == timestamp \div DayMs

\* the messages of the measured chat sent by user
MessagesOf(user) ==
    {i \in 1..Len(mChat[1].messages) :
        /\ Truthy(mChat[1].messages[i].from)
        /\ normaliseParticipantName(mChat[1].messages[i].from) = user}

\* the distinct dates on which user sent a message, by the given calendar
ActiveDates(user, date(_)) ==
    {date(mChat[1].messages[i].timestamp) : i \in MessagesOf(user)}

\* the length of the run of consecutive dates of S that ends at d
RunEndingAt(S, d) ==
    IF d \notin S THEN 0
    ELSE CHOOSE n \in 1..Cardinality(S) :
            /\ \A k \in 0..(n - 1) : d - k \in S
            /\ d - n \notin S

\* the length of the longest run of consecutive dates in S
LongestRun(S) ==
    IF S = {} THEN 0
    ELSE CHOOSE n \in 1..Cardinality(S) :
            /\ \E d \in S : RunEndingAt(S, d) = n
            /\ \A d \in S : RunEndingAt(S, d) <= n

\* C11: byUser[user].longestStreak is the length of the longest run of
\* consecutive calendar dates among the dates on which the user sent a
\* message, and it is 0 only for an entry without dated activity.
C11_LongestStreak ==
    metrics # <<>> =>
        \A i \in 1..Len(metrics[1].byUser) :
            metrics[1].byUser[i].longestStreak
                = LongestRun(ActiveDates(metrics[1].byUser[i].user, LocalDate))

\* C11 with every date taken in UTC, as toISOString() gives it
C11_LongestStreakUtc ==
    metrics # <<>> =>
        \A i \in 1..Len(metrics[1].byUser) :
            metrics[1].byUser[i].longestStreak
                = LongestRun(ActiveDates(metrics[1].byUser[i].user, DateKey))

\* a streak of two days with a gap after it, measured in UTC
C11_Witness ==
    /\ metrics # <<>> /\ timezoneOffsetMs = 0
    /\ \E i \in 1..Len(metrics[1].byUser) :
          /\ metrics[1].byUser[i].longestStreak = 2
          /\ Cardinality(ActiveDates(metrics[1].byUser[i].user, LocalDate)) = 3

SetMax(S) == CHOOSE x \in S : \A y \in S : y <= x

\* currentStreak as the claim gives it, for the dates S and today
ExpectedCurrentStreak(S, today) ==
    IF S = {} \/ today - SetMax(S) > 1 THEN 0 ELSE RunEndingAt(S, SetMax(S))

\* C12: byUser[user].currentStreak is 0 when the user's most recent active
\* date is more than one day before today, and otherwise the length of the
\* unbroken run of consecutive dates ending at the most recent active date;
\* it never exceeds longestStreak.
C12_CurrentStreak ==
    metrics # <<>> =>
        \A i \in 1..Len(metrics[1].byUser) :
            /\ metrics[1].byUser[i].currentStreak
                 = ExpectedCurrentStreak(
                        ActiveDates(metrics[1].byUser[i].user, LocalDate),
                        LocalDate(WallClock))
            /\ metrics[1].byUser[i].currentStreak <= metrics[1].byUser[i].longestStreak

\* C12 with the dates and today taken in UTC
C12_CurrentStreakUtc ==
    metrics # <<>> =>
        \A i \in 1..Len(metrics[1].byUser) :
            /\ metrics[1].byUser[i].currentStreak
                 = ExpectedCurrentStreak(
                        ActiveDates(metrics[1].byUser[i].user, DateKey),
                        DateKey(WallClock))
            /\ metrics[1].byUser[i].currentStreak <= metrics[1].byUser[i].longestStreak

----------------------------------------------------------------------------
(* countEmojis called again and again on the shared regular expression *)

InitEmoji ==
    /\ DateIdle /\ LinesIdle /\ PipeIdle /\ MetricsIdle

NextEmoji == CallCountEmojis

SpecEmoji == InitEmoji /\ [][NextEmoji]_vars

EmojiClusters(text) == Cardinality({i \in 1..Len(text) : text[i] = EMOJI})

\* C13: countEmojis(text) is the number of grapheme clusters of text that are
\* emoji, so k adjacent emoji count as k, whatever call used the shared
\* regular expression before.
C13_CountsEveryEmoji ==
    emojiOut # <<>> => emojiOut[1] = EmojiClusters(emojiIn)

\* countEmojis never counts a cluster that is no emoji
C13_NeverOvercounts ==
    emojiOut # <<>> => emojiOut[1] <= EmojiClusters(emojiIn)

----------------------------------------------------------------------------
(* SpecCli: the two entry points, runCLI (direct mode) and runAnalysis
   (interactive mode), from discovery to the written outputs *)

\* runCLI up to its call of processMultipleChats: with no file discovered the
\* error is logged and the process exits with code 1
RunCLI ==
    /\ pc = "runCLI"
    /\ pc' = IF Len(files) = 0 THEN "exit1" ELSE "parse"
    /\ UNCHANGED <<files, fileIdx, parsedChats, parseErrors, relatedGroups,
                   mergedChats, rl, nameMappings, normalisedChats, analysis>>
    /\ UNCHANGED <<dateVars, lineVars, metricVars, ownerVars>>

\* runAnalysis up to its call of processMultipleChats: with no file
\* discovered the error is logged and it returns true, back to the main menu
RunAnalysis ==
    /\ pc = "runAnalysis"
    /\ pc' = IF Len(files) = 0 THEN "menu" ELSE "parse"
    /\ UNCHANGED <<files, fileIdx, parsedChats, parseErrors, relatedGroups,
                   mergedChats, rl, nameMappings, normalisedChats, analysis>>
    /\ UNCHANGED <<dateVars, lineVars, metricVars, ownerVars>>

\* the JSON analysis and the HTML report are written
WriteOutputs ==
    /\ pc = "analysed"
    /\ pc' = "written"
    /\ UNCHANGED <<files, fileIdx, parsedChats, parseErrors, relatedGroups,
                   mergedChats, rl, nameMappings, normalisedChats, analysis>>
    /\ UNCHANGED <<dateVars, lineVars, metricVars, ownerVars>>

\* an Android backup without <smses>, a text export without a line, and an
\* Instagram file that is not JSON
BrokenBackup == RawFile(".xml", <<"b","a","c","k","u","p","_","s","m","s">>, <<>>, <<>>, <<>>)
EmptyExport == RawFile(".txt", <<"c","h","a","t">>, <<>>, <<>>, <<>>)
BrokenInbox == RawFile(".json", <<"n","o","t","e","s","_","i","n","s","t","a">>, <<>>, <<>>, <<>>)

\* what discoverChatFiles may return
CliFiles == {WhatsAppOne, InstagramBobB, BrokenBackup, EmptyExport, BrokenInbox}

InitCli ==
    /\ DateIdle /\ LinesIdle /\ MetricsIdle /\ OwnerIdle
    /\ files \in SeqsUpTo(CliFiles, MaxFiles)
    /\ pc \in {"runCLI", "runAnalysis"}
    /\ fileIdx = 0
    /\ parsedChats = <<>>
    /\ parseErrors = {}
    /\ relatedGroups = <<>>
    /\ mergedChats = <<>>
    /\ rl \in RlOptions \ {<<>>}
    /\ nameMappings = <<>>
    /\ normalisedChats = <<>>
    /\ analysis = <<>>

NextCli ==
    \/ RunCLI \/ RunAnalysis \/ ParseFile \/ GroupAndMerge \/ Resolve
    \/ Analyse \/ WriteOutputs

SpecCli == InitCli /\ [][NextCli]_vars

\* no discovered file parses into a chat with messages
NoUsableChat == UsableChats(files, Len(files)) = <<>>

\* C15: a run with no usable chat file, none discovered or none that parses
\* into a chat with messages, ends the process with a fatal error: it never
\* returns to the menu and never reaches name normalisation, analysis or
\* output writing.
C15_ZeroUsableIsFatal ==
    NoUsableChat => pc \in {"runCLI", "runAnalysis", "parse", "merged", "exit1"}

\* what the code does guarantee: with no file discovered nothing is parsed,
\* normalised, analysed or written
C15_NoFileNothingDone ==
    files = <<>> => pc \in {"runCLI", "runAnalysis", "exit1", "menu"}
----------------------------------------------------------------------------
(* SpecOwner: the single-file build of the analyser, whose
   normalizeParticipantNames first asks for the name of the phone's owner *)

\* PLATFORM_PRIORITY[platform] || 999 with the table of the single-file
\* build, which also lists android_messages
MonolithPriority(platform) ==
    CASE platform = "whatsapp" -> 1
      [] platform = "instagram" -> 2
      [] platform = "android_messages" -> 3
      [] OTHER -> 999

\* the two tables order the platforms of parsed chats alike, so that
\* findBestMatch and the direction of a suggested mapping are those of
\* PlatformPriority as long as no chat is of mixed platform
PrioritiesAgree ==
    \A p, q \in {"whatsapp", "instagram", "android_messages"} :
        (MonolithPriority(p) < MonolithPriority(q))
            <=> (PlatformPriority(p) < PlatformPriority(q))

\* chat.platform === 'android_messages' and some message has no sender
hasUndefinedSenders(chats) ==
    \E i \in 1..Len(chats) :
        /\ chats[i].platform = "android_messages"
        /\ \E j \in 1..Len(chats[i].messages) : chats[i].messages[j].from = Undefined

\* the rewriting that adds the name to the participants and leaves the
\* messages as they are
WithOwnerNameListed(chat, name) ==
    IF chat.platform = "android_messages"
    THEN [chat EXCEPT !.participants = SetAdd(@, name)]
    ELSE chat

\* one chat of updatedChats
WithOwnerName(chat, name) ==
    IF chat.platform = "android_messages"
    THEN [chat EXCEPT
            !.messages = [j \in 1..Len(chat.messages) |->
                            [chat.messages[j] EXCEPT
                                !.from = IF @ = Undefined THEN name ELSE @]],
            !.participants = SetAdd(@, name)]
    ELSE chat

updatedChats(chats, name) == [i \in 1..Len(chats) |-> WithOwnerName(chats[i], name)]

\* the chats the running call of normalizeParticipantNames was given
CurrentChats == IF pc = "merged" THEN mergedChats ELSE normalisedChats

\* normalizeParticipantNames rewriting the chats with whatever was typed,
\* the empty name included
AskOwnerNameUnchecked ==
    /\ pc \in {"merged", "rerun"}
    /\ hasUndefinedSenders(CurrentChats)
    /\ \E answer \in {Answer(rl[1])} :
          /\ phoneOwnerName' = <<answer>>
          /\ normalisedChats' = updatedChats(CurrentChats, answer)
          /\ pc' = IF answer # <<>> THEN "rerun" ELSE "mapping"
    /\ ownerQuestions' = ownerQuestions + 1
    /\ rl' = <<Asked(rl[1])>>
    /\ UNCHANGED <<files, fileIdx, parsedChats, parseErrors, relatedGroups,
                   mergedChats, nameMappings, analysis>>
    /\ UNCHANGED <<dateVars, lineVars, metricVars>>

\* normalizeParticipantNames up to the answer to its first question: the
\* owner's name rewrites the chats and the function calls itself on them; a
\* blank answer leaves the chats alone and the call goes on
AskOwnerName ==
    /\ pc \in {"merged", "rerun"}
    /\ hasUndefinedSenders(CurrentChats)
    /\ \E answer \in {Answer(rl[1])} :
          /\ phoneOwnerName' = <<answer>>
          /\ normalisedChats' = IF answer # <<>> THEN updatedChats(CurrentChats, answer)
                                ELSE CurrentChats
          /\ pc' = IF answer # <<>> THEN "rerun" ELSE "mapping"
    /\ ownerQuestions' = ownerQuestions + 1
    /\ rl' = <<Asked(rl[1])>>
    /\ UNCHANGED <<files, fileIdx, parsedChats, parseErrors, relatedGroups,
                   mergedChats, nameMappings, analysis>>
    /\ UNCHANGED <<dateVars, lineVars, metricVars>>

\* the rest of normalizeParticipantNames, for chats without an unnamed
\* sender or after a blank answer: the mapping of the name variations
MapNames ==
    /\ \/ pc \in {"merged", "rerun"} /\ ~hasUndefinedSenders(CurrentChats)
       \/ pc = "mapping"
    /\ \E out \in {normaliseParticipantNames(CurrentChats, rl)} :
           /\ normalisedChats' = out.chats
           /\ nameMappings' = out.nameMappings
           /\ rl' = out.rl
    /\ pc' = "resolved"
    /\ UNCHANGED <<files, fileIdx, parsedChats, parseErrors, relatedGroups,
                   mergedChats, analysis>>
    /\ UNCHANGED <<dateVars, lineVars, metricVars, ownerVars>>

Ali == <<"A","l","i">>

\* an SMS backup with one message received from contact and one sent by the
\* owner of the phone
AndroidWith(contact) ==
    RawFile(".xml", <<"b","a","c","k","u","p">>, <<>>, <<>>,
            <<[sms |-> <<[date |-> 91000000, type |-> "1", contact_name |-> contact,
                          body |-> <<"h","i">>],
                         [date |-> 92000000, type |-> "2", contact_name |-> contact,
                          body |-> <<"y","o">>]>>,
               mms |-> <<>>]>>)

OwnerFiles == {WhatsAppOne, AndroidWith(Bob), AndroidWith(BobB), AndroidBob}

\* what is typed on standard input: the first line answers the first question
OwnerAnswers ==
    { <<>>, <<<<" ">>>>, <<<<" ","A","l","i"," ">>, <<"y">>>>, <<Alice>>, <<Ali, <<"n">>, <<"A","l">>>>, <<BobB, <<"y","e","s">>>> }

InitOwner ==
    /\ DateIdle /\ LinesIdle /\ MetricsIdle /\ OwnerIdle
    /\ files \in SeqsUpTo(OwnerFiles, MaxFiles) \ {<<>>}
    /\ pc = "parse"
    /\ fileIdx = 0
    /\ parsedChats = <<>>
    /\ parseErrors = {}
    /\ relatedGroups = <<>>
    /\ mergedChats = <<>>
    /\ rl \in { <<[answers |-> a, asked |-> 0]>> : a \in OwnerAnswers }
    /\ nameMappings = <<>>
    /\ normalisedChats = <<>>
    /\ analysis = <<>>

NextOwner == ParseFile \/ GroupAndMerge \/ AskOwnerName \/ MapNames \/ Analyse

SpecOwner == InitOwner /\ [][NextOwner]_vars

\* every chat is of one platform, the case in which the two priority tables
\* agree
OwnerPlatformsKnown ==
    /\ PrioritiesAgree
    /\ \A i \in 1..Len(mergedChats) :
            mergedChats[i].platform \in {"whatsapp", "instagram", "android_messages"}

OwnerNamed == phoneOwnerName # <<>> /\ phoneOwnerName[1] # <<>>

AndroidSendersKnown(chats) ==
    \A i \in 1..Len(chats) :
        chats[i].platform = "android_messages" =>
            \A j \in 1..Len(chats[i].messages) : chats[i].messages[j].from # Undefined

\* C16: once a non-empty owner name is given for Android chats with an
\* unnamed sender, no message of an Android chat is without sender and the
\* name is a participant of every Android chat; the function is run again on
\* the rewritten chats, its result is their mapping, and the owner's name is
\* asked for once only.
C16_OwnerNameResolves ==
    /\ ownerQuestions <= 1
    /\ OwnerNamed =>
          /\ pc \in {"rerun", "resolved", "analysed"}
          /\ AndroidSendersKnown(normalisedChats)
          /\ pc = "rerun" =>
                /\ normalisedChats = updatedChats(mergedChats, phoneOwnerName[1])
                /\ \A i \in 1..Len(normalisedChats) :
                      normalisedChats[i].platform = "android_messages" =>
                          phoneOwnerName[1] \in Range(normalisedChats[i].participants)
          /\ pc = "resolved" =>
                normalisedChats =
                    [i \in 1..Len(mergedChats) |->
                        ApplyMappings(WithOwnerName(mergedChats[i], phoneOwnerName[1]),
                                      nameMappings)]

\* C16 witness: the owner called themselves Ali, the second run found Alice
\* of WhatsApp for that name and the sent messages are now Alice's
C16_Witness ==
    /\ pc = "resolved"
    /\ phoneOwnerName = <<Ali>>
    /\ ownerQuestions = 1
    /\ hasUndefinedSenders(mergedChats)
    /\ MapGet(nameMappings, Ali) = <<Alice>>
    /\ \E i \in 1..Len(normalisedChats) :
          /\ normalisedChats[i].platform = "android_messages"
          /\ \E j \in 1..Len(normalisedChats[i].messages) :
                normalisedChats[i].messages[j].from = Alice

\* the owner was asked for and the answer was blank
OwnerBlank == phoneOwnerName = <<<<>>>>

\* the messages of the chats listed in idx that name is the sender of
MessagesFrom(chats, idx, name) ==
    { <<i, j>> \in idx \X (1..MaxItems * MaxFiles) :
        /\ j <= Len(chats[i].messages)
        /\ Truthy(chats[i].messages[j].from)
        /\ normaliseParticipantName(chats[i].messages[j].from) = name }

\* C17: after a blank answer the messages the owner sent keep an undefined
\* sender; they count in totals.messages of their chat and in
\* overview.totalMessages, every perPerson entry is that of a participant
\* and counts only the messages sent under its name.
C17_BlankOwnerUnattributed ==
    OwnerBlank =>
        /\ pc \in {"mapping", "resolved", "analysed"}
        /\ Len(normalisedChats) = Len(mergedChats)
        /\ \A i \in 1..Len(mergedChats) :
              /\ Len(normalisedChats[i].messages) = Len(mergedChats[i].messages)
              /\ \A j \in 1..Len(mergedChats[i].messages) :
                    mergedChats[i].messages[j].from = Undefined
                        => normalisedChats[i].messages[j].from = Undefined
        /\ pc = "analysed" =>
              /\ analysis[1].overview.totalMessages = MessageCount(mergedChats)
              /\ \A i \in 1..Len(mergedChats) :
                    analysis[1].individualChats[i].metrics.totals.messages
                        = Len(mergedChats[i].messages)
              /\ \A p \in 1..Len(analysis[1].perPerson) :
                    LET person == analysis[1].perPerson[p]
                    IN  /\ Truthy(person.name)
                        /\ person.name # SystemKey
                        /\ person.totals.totalMessages
                             = Cardinality(MessagesFrom(normalisedChats,
                                              ChatsOf(normalisedChats, person.name),
                                              person.name))

\* C17 witness: a backup analysed after a blank answer; its sent message has
\* no sender, the chat counts two messages and its one person one
C17_Witness ==
    /\ pc = "analysed"
    /\ OwnerBlank
    /\ Len(normalisedChats) = 1
    /\ normalisedChats[1].platform = "android_messages"
    /\ \E j \in 1..Len(normalisedChats[1].messages) :
          normalisedChats[1].messages[j].from = Undefined
    /\ analysis[1].overview.totalMessages = 2
    /\ Len(analysis[1].perPerson) = 1
    /\ analysis[1].perPerson[1].totals.totalMessages = 1
----------------------------------------------------------------------------
(* Medians of the response times, in the chat metrics and per platform *)

RECURSIVE SamplesIn(_, _, _)
\* the latencies of the messages of msgs listed in at, from index i
SamplesIn(msgs, at, i) ==
    IF i > Len(msgs) THEN <<>>
    ELSE (IF i \in at THEN <<ReplySecs(<<msgs[i - 1]>>, msgs[i])>> ELSE <<>>)
         \o SamplesIn(msgs, at, i + 1)

\* the sorted-sample midpoint: the central value, or the mean of the two
\* central values; 0 without a sample
Midpoint(samples) == IF samples = <<>> THEN 0 ELSE Median(samples)

\* the medians computeMetrics reports for a chat are the midpoints of the
\* samples of the sender and of the pair
ChatMediansAreMidpoints(msgs, out) ==
    /\ \A e \in Range(out.byUser) :
          e.medianResponseSec
            = Midpoint(SamplesIn(msgs, {k \in Replies(msgs) : msgs[k].from = e.user}, 2))
    /\ \A e \in Range(out.pairwiseReplyLatency) :
          e.medianSec
            = Midpoint(SamplesIn(msgs, {k \in Replies(msgs) :
                                            /\ msgs[k - 1].from = e.from
                                            /\ msgs[k].from = e.to}, 2))

\* the response times of a person on a platform, as the aggregator collects
\* them from the messages of the person's chats of that platform
PersonPlatformTimes(name, platform) ==
    platformResponseTimes(
        SortByTimestamp(MessagesOfChats(
            [i \in 1..Len(analysis[1].individualChats) |->
                analysis[1].individualChats[i].metrics],
            {i \in 1..Len(normalisedChats) :
                /\ name \in Range(normalisedChats[i].participants)
                /\ normalisedChats[i].platform = platform}, 1)),
        name, 2)

\* the medians of the chat metrics of an analysis
C20_ChatMedians ==
    pc = "analysed" =>
        \A i \in 1..Len(normalisedChats) :
            ChatMediansAreMidpoints(normalisedChats[i].messages,
                                    analysis[1].individualChats[i].metrics)

\* C20: every median response time reported is the midpoint of the sorted
\* samples, the mean of the two central values for an even number of them:
\* medianResponseSec of byUser, medianSec of pairwiseReplyLatency, and
\* responseMetrics.medianResponseSec of each person on each platform.
C20_Medians ==
    pc = "analysed" =>
        /\ \A i \in 1..Len(normalisedChats) :
              ChatMediansAreMidpoints(normalisedChats[i].messages,
                                      analysis[1].individualChats[i].metrics)
        /\ \A p \in 1..Len(analysis[1].perPerson) :
              \A k \in 1..Len(analysis[1].perPerson[p].platforms) :
                  analysis[1].perPerson[p].platforms[k].responseMetrics.medianResponseSec
                    = Midpoint(PersonPlatformTimes(
                                    analysis[1].perPerson[p].name,
                                    analysis[1].perPerson[p].platforms[k].platform))

\* a chat median over an even number of samples is reached: Bob answered
\* Alice twice in one chat, after one and after three minutes, and the two
\* minutes between are reported for Bob and for the pair
C20_ChatMedianAveraged ==
    /\ pc = "analysed"
    /\ \E i \in 1..Len(normalisedChats) :
          /\ \E e \in Range(analysis[1].individualChats[i].metrics.byUser) :
                e.user = Bob /\ e.responseCount = 2 /\ e.medianResponseSec = 120 * Second
          /\ \E e \in Range(analysis[1].individualChats[i].metrics.pairwiseReplyLatency) :
                e.from = Alice /\ e.to = Bob /\ e.samples = 2 /\ e.medianSec = 120 * Second
----------------------------------------------------------------------------
(* SpecNames: the pipeline over exports whose contact names differ from
   platform to platform *)

BDot == <<"B",".">>

\* exports of three platforms: Bob of WhatsApp is "Bob B." on Instagram, and
\* the phone knows a contact Bob or a contact "B."
NameFiles == {WhatsAppOne, InstagramBobB, InstagramBob, AndroidWith(Bob), AndroidWith(BDot)}

NameAnswers == { <<>>, <<<<"y">>, <<"Y","e","s">>>>, <<<<"n">>, <<"B","o","b">>>> }

InitNames ==
    /\ DateIdle /\ LinesIdle /\ MetricsIdle /\ OwnerIdle
    /\ files \in SeqsUpTo(NameFiles, MaxFiles) \ {<<>>}
    /\ pc = "parse"
    /\ fileIdx = 0
    /\ parsedChats = <<>>
    /\ parseErrors = {}
    /\ relatedGroups = <<>>
    /\ mergedChats = <<>>
    /\ rl \in {<<>>} \cup { <<[answers |-> a, asked |-> 0]>> : a \in NameAnswers }
    /\ nameMappings = <<>>
    /\ normalisedChats = <<>>
    /\ analysis = <<>>

SpecNames == InitNames /\ [][NextPipe]_vars

\* the place of a platform in the order whatsapp < instagram <
\* android_messages
PlatformRank(platform) ==
    CASE platform = "whatsapp" -> 1
      [] platform = "instagram" -> 2
      [] platform = "android_messages" -> 3
      [] OTHER -> 4

\* the platforms whose chats list name as a participant
PlatformsNaming(chats, name) ==
    {chats[i].platform : i \in {j \in 1..Len(chats) : name \in Range(chats[j].participants)}}

\* the earliest platform that knows the name
NameRank(chats, name) ==
    IF PlatformsNaming(chats, name) = {} THEN 4
    ELSE CHOOSE r \in 1..4 :
            /\ \E p \in PlatformsNaming(chats, name) : PlatformRank(p) = r
            /\ \A p \in PlatformsNaming(chats, name) : PlatformRank(p) >= r

\* the mappings that rename
Renamings == {m \in Range(nameMappings) : m.from # m.to}

\* every mapping of the run is one the heuristic proposed: there is no
\* readline interface and nothing was asked
OnlyHeuristicMappings == rl = <<>>

\* C21: a mapping the heuristic proposed and the resolver applied has as
\* target the name of the platform earlier in the order whatsapp < instagram
\* < android_messages and as source the name of the later platform; no name
\* is rewritten toward a later platform.
C21_TargetIsEarlierPlatform ==
    (pc \in {"resolved", "analysed"} /\ OnlyHeuristicMappings)
        => \A m \in Renamings :
              NameRank(mergedChats, m.to) <= NameRank(mergedChats, m.from)

\* what holds of the names that one platform only knows: between two such
\* names the target is never the one of the later platform
C21_SinglePlatformTargets ==
    (pc \in {"resolved", "analysed"} /\ OnlyHeuristicMappings)
        => \A m \in Renamings :
              (/\ Cardinality(PlatformsNaming(mergedChats, m.from)) = 1
               /\ Cardinality(PlatformsNaming(mergedChats, m.to)) = 1)
                  => NameRank(mergedChats, m.to) <= NameRank(mergedChats, m.from)

\* the names two or more platforms know
MultiPlatformNames(chats) ==
    {n \in UNION {Range(chats[i].participants) : i \in 1..Len(chats)} :
        Cardinality(PlatformsNaming(chats, n)) >= 2}

\* name is where it was: in the participants and as sender
NameKept(before, after, name) ==
    /\ name \in Range(before.participants) => name \in Range(after.participants)
    /\ Len(after.messages) = Len(before.messages)
    /\ \A j \in 1..Len(before.messages) :
          before.messages[j].from = name => after.messages[j].from = name

\* C22: a name that two or more platforms know is never the source of a
\* mapping, and is in the output wherever it was in the input: in the
\* participants of each chat and as the sender of each message.
C22_SharedNamesUntouched ==
    pc = "resolved" =>
        \A n \in MultiPlatformNames(mergedChats) :
            /\ \A m \in Range(nameMappings) : m.from = n => m.to = n
            /\ \A i \in 1..Len(mergedChats) :
                  NameKept(mergedChats[i], normalisedChats[i], n)

\* what holds: a name that two or more platforms know is never renamed by an
\* answer typed for it, only by a proposal turned round
C22_SharedNamesNotAsked ==
    pc = "resolved" =>
        \A n \in MultiPlatformNames(mergedChats) :
            \A m \in Range(nameMappings) :
                (m.from = n /\ m.to # n)
                    => /\ Cardinality(PlatformsNaming(mergedChats, m.to)) = 1
                       /\ NamesMatch(m.to, n)

----------------------------------------------------------------------------
(* the rules of parseInstagram, one Instagram export at a time *)

\* the entries an inbox may hold: text, nothing at all, a photo sent during a
\* call, the end and the start of a call, a call entry without content, a
\* missed call, a reaction, a shared reel, and a lone directional mark
IgEntryPool ==
    { IgText(<<"A","l">>, 0, <<"h","i">>),
      IgText(<<"A","l">>, 0, Undefined),
      [IgText(<<"B","o">>, 0, <<"V","i","d","e","o"," ","c","h","a","t"," ","e","n","d","e","d">>) EXCEPT !.photos = 1, !.call_duration = 5],
      [IgText(<<"B","o">>, 0, <<"V","i","d","e","o"," ","c","h","a","t"," ","e","n","d","e","d">>) EXCEPT !.call_duration = 75],
      [IgText(<<"A","l">>, 0, <<"A","l"," ","s","t","a","r","t","e","d"," ","a"," ","v","o","i","c","e"," ","c","h","a","t">>) EXCEPT !.call_duration = 0],
      [IgText(<<"A","l">>, 0, Undefined) EXCEPT !.call_duration = 0],
      [IgText(<<"B","o">>, 0, <<"M","i","s","s","e","d"," ","c","a","l","l">>) EXCEPT !.call_duration = 0],
      IgText(<<"B","o">>, 0, <<"R","e","a","c","t","e","d"," ","t","o"," ","y","o","u","r"," ","m","e","s","s","a","g","e">>),
      [IgText(<<"A","l">>, 0, Undefined) EXCEPT !.share = << <<>> >>],
      IgText(<<"B","o">>, 0, <<LRM>>) }

\* the entries in the order of the export, newest first
IgInbox(entries) ==
    [participants |-> <<<<"A","l">>, <<"B","o">>>>,
     messages |-> [i \in 1..Len(entries) |->
                    [entries[i] EXCEPT !.timestamp_ms = 93000000 - (60000 * i)]]]

IgFiles ==
    { RawFile(".json", <<"i","n","b","o","x">>, <<>>, <<IgInbox(entries)>>, <<>>) :
        entries \in SeqsUpTo(IgEntryPool, MaxItems) }

InitInstagram ==
    /\ DateIdle /\ LinesIdle /\ MetricsIdle /\ OwnerIdle
    /\ files \in {<<f>> : f \in IgFiles}
    /\ pc = "parse"
    /\ fileIdx = 0
    /\ parsedChats = <<>>
    /\ parseErrors = {}
    /\ relatedGroups = <<>>
    /\ mergedChats = <<>>
    /\ rl = <<>>
    /\ nameMappings = <<>>
    /\ normalisedChats = <<>>
    /\ analysis = <<>>

SpecInstagram == InitInstagram /\ [][NextProcess]_vars

\* the rules by their place in the order
IgHasMedia(msg) ==
    msg.photos > 0 \/ msg.videos > 0 \/ msg.audio_files > 0 \/ msg.share # <<>>
IgIsCall(msg) == ~IgHasMedia(msg) /\ msg.call_duration # -1
IgContent(msg) == IF Truthy(msg.content) THEN msg.content ELSE <<>>
IgIsReaction(msg) ==
    /\ ~IgHasMedia(msg) /\ ~IgIsCall(msg)
    /\ Includes(IgContent(msg), <<"R","e","a","c","t","e","d">>)
    /\ Includes(IgContent(msg), <<"t","o"," ","y","o","u","r"," ","m","e","s","s","a","g","e">>)
IgIsEmpty(msg) ==
    /\ ~IgHasMedia(msg) /\ ~IgIsCall(msg) /\ ~IgIsReaction(msg)
    /\ Trim(IgContent(msg)) = <<>>

\* the messages parsed for the entry of one time
IgEmitted(chat, msg) ==
    {m \in Range(chat.messages) : m.timestamp = msg.timestamp_ms}

\* the export that was read and the chat parsed from it
IgRead == Len(parsedChats) = 1 /\ parsedChats[1].platform = "instagram"
IgInput == files[1].json[1].messages

\* C23: parseInstagram takes the first rule that matches, in the order
\* photos, videos, audio, share, call duration, reaction phrase, empty
\* content: an entry without media that has a call duration is a system
\* message without sender, an entry of empty content that no earlier rule
\* takes is dropped, and no message other than a media notice has empty text.
C23_InstagramRules ==
    IgRead =>
        /\ \A i \in 1..Len(IgInput) :
              LET msg == IgInput[i]
                  out == IgEmitted(parsedChats[1], msg)
              IN  /\ IgHasMedia(msg)
                        => \A m \in out : m.isMediaNotice /\ ~m.isSystem
                  /\ IgIsCall(msg)
                        => /\ out # {}
                           /\ \A m \in out : m.isSystem /\ m.from = Undefined
                  /\ IgIsEmpty(msg) <=> out = {}
        /\ \A m \in Range(parsedChats[1].messages) :
              ~m.isMediaNotice => m.text # <<>>

\* what holds: the order of the rules, with the call rule read as the code
\* has it (a system narrative for the four call phrases, an ordinary message
\* of the sender otherwise)
C23_RuleOrder ==
    IgRead =>
        \A i \in 1..Len(IgInput) :
            LET msg == IgInput[i]
                out == IgEmitted(parsedChats[1], msg)
            IN  /\ IgHasMedia(msg)
                      => \A m \in out : m.isMediaNotice /\ ~m.isSystem
                /\ IgIsCall(msg) => out # {}
                /\ IgIsReaction(msg)
                      => out # {} /\ \A m \in out : m.isSystem /\ m.from = Undefined
                /\ IgIsEmpty(msg) <=> out = {}

\* a call entry without one of the call phrases is read
C23_CallWithoutPhrase ==
    /\ IgRead
    /\ \E i \in 1..Len(IgInput) :
          /\ IgIsCall(IgInput[i])
          /\ \E m \in IgEmitted(parsedChats[1], IgInput[i]) : ~m.isSystem

----------------------------------------------------------------------------
(* the line accumulator of parseWhatsApp, one line at a time *)

MaxLines == 3

\* lines of an export: two messages, a system line, a line that starts with
\* a directional mark (with and without a timestamp after it), a media line
\* without timestamp, two lines of running text, an empty line and a blank one
ExportLines ==
    { WaLine(0, <<Jan13At(0)>>, <<"A","l",":"," ","h","i">>),
      WaLine(0, <<Jan13At(1)>>, <<"B","o",":"," ","y","o">>),
      WaLine(0, <<Jan13At(2)>>, <<"A","l"," ","l","e","f","t">>),
      WaLine(1, <<Jan13At(3)>>, <<"B","o",":"," ","i","m","a","g","e"," ","o","m","i","t","t","e","d">>),
      WaLine(1, <<>>, <<"B","o"," ","j","o","i","n","e","d">>),
      WaLine(0, <<>>, <<"i","m","a","g","e"," ","o","m","i","t","t","e","d">>),
      WaLine(0, <<>>, <<"o","k"," ">>),
      WaLine(0, <<>>, <<"s","e","e",LRM>>),
      WaLine(0, <<>>, <<>>),
      WaLine(0, <<>>, <<" ">>) }

InitLines ==
    /\ DateIdle /\ PipeIdle /\ MetricsIdle
    /\ waLines \in SeqsUpTo(ExportLines, MaxLines)
    /\ waLineIdx = 0
    /\ waMessages = <<>>
    /\ waCurrentMessage = <<>>

\* one turn of for (const rawLine of lines)
ReadLine ==
    /\ waLineIdx < Len(waLines)
    /\ \E out \in {WaStep([messages |-> waMessages,
                           currentMessage |-> waCurrentMessage],
                          waLines[waLineIdx + 1])} :
          /\ waMessages' = out.messages
          /\ waCurrentMessage' = out.currentMessage
    /\ waLineIdx' = waLineIdx + 1
    /\ UNCHANGED <<waLines, dateVars, pipeVars, metricVars>>

\* after the loop: if (currentMessage) messages.push(currentMessage)
PushLast ==
    /\ waLineIdx = Len(waLines)
    /\ waMessages' = waMessages \o waCurrentMessage
    /\ waCurrentMessage' = <<>>
    /\ waLineIdx' = waLineIdx + 1
    /\ UNCHANGED <<waLines, dateVars, pipeVars, metricVars>>

NextLines == ReadLine \/ PushLast

SpecLines == InitLines /\ [][NextLines]_vars

\* the text of a line without the blanks at its end
LineText(line) == TrimEnd(line.rest)
\* a line that starts a message: a timestamp prefix, a directional mark in
\* front, or a system-message phrase somewhere in it
StartsMessage(line) ==
    \/ line.marks = 0 /\ line.stamp # <<>>
    \/ line.marks > 0
    \/ hasSystemPattern(LineText(line))
\* a line of nothing but blanks
BlankLine(line) == line.marks = 0 /\ line.stamp = <<>> /\ LineText(line) = <<>>
\* the messages started so far, the one being accumulated last
Started == waMessages \o waCurrentMessage
StartingLines(n) == {i \in 1..n : StartsMessage(waLines[i])}

\* what a turn of the loop does with the line it reads
LineStep ==
    LET line == waLines[waLineIdx + 1]
    IN  waLineIdx < Len(waLines) =>
            IF StartsMessage(line)
            THEN /\ waMessages' = waMessages \o waCurrentMessage
                 /\ Len(waCurrentMessage') = 1
            ELSE /\ waMessages' = waMessages
                 /\ Len(waCurrentMessage') = Len(waCurrentMessage)
                 /\ waCurrentMessage # <<>> =>
                      waCurrentMessage' =
                          [waCurrentMessage EXCEPT ![1].text =
                              IF BlankLine(line) THEN @
                              ELSE @ \o <<"\n">> \o stripControlMarks(LineText(line))]

\* the messages are those of the message-starting lines, one each and in the
\* order of the lines
OnePerStartingLine ==
    /\ Len(Started) = Cardinality(StartingLines(IF waLineIdx > Len(waLines)
                                                THEN Len(waLines) ELSE waLineIdx))
    /\ waLineIdx > Len(waLines) =>
          /\ waCurrentMessage = <<>>
          /\ waMessages = parseWhatsApp(waLines).messages
          /\ \A k \in 1..Len(waMessages) :
                \E i \in StartingLines(Len(waLines)) :
                    /\ Cardinality({j \in StartingLines(Len(waLines)) : j <= i}) = k
                    /\ waMessages[k].timestamp =
                          (IF waLines[i].stamp # <<>> THEN StampDate(waLines[i].stamp[1])
                           ELSE WallClock)

\* C24: every line that starts a message (a timestamp prefix, a directional
\* mark in front, or a system-message phrase in it) pushes the message before
\* it and starts exactly one message; every other line that is not blank
\* starts none and is appended after a line break to the text of the message
\* being accumulated, or dropped when there is none; the messages are those
\* of the message-starting lines, one each and in the order of the lines.
C24_LineAccumulator == [][LineStep]_vars /\ []OnePerStartingLine

\* a message of two lines, and a line of text before the first message
C24_Witness ==
    /\ waLineIdx > Len(waLines)
    /\ Len(waLines) = 3
    /\ ~StartsMessage(waLines[1]) /\ ~BlankLine(waLines[1])
    /\ StartsMessage(waLines[2])
    /\ ~StartsMessage(waLines[3]) /\ ~BlankLine(waLines[3])
    /\ Len(waMessages) = 1
    /\ Includes(waMessages[1].text, <<"\n">>)

----------------------------------------------------------------------------
(* top words: the sender's own name among the words of a message *)

\* messages of Ana, Bob and Sabah Ali: "ana" and "sabah" are words of
\* EGYPTIAN_ARABIZI_ALLOW as well as names
WordLines ==
    { WaLine(0, <<Jan02At(10, 0)>>, <<"A","n","a",":"," ","a","n","a"," ","s","a","b","a","h"," ","b","o","b">>),
      WaLine(0, <<Jan02At(10, 1)>>, <<"B","o","b",":"," ","b","o","b"," ","s","a","i","d"," ","h","e","l","l","o">>),
      WaLine(0, <<Jan02At(10, 2)>>, <<"S","a","b","a","h"," ","A","l","i",":"," ","s","a","b","a","h"," ","a","l","i"," ","l","a","t","e">>),
      WaLine(0, <<Jan02At(10, 3)>>, <<"B","o","b",":"," ","h","a","b","i","b","i"," ","h","e","l","l","o"," ","a","n","a">>),
      WaLine(0, <<Jan02At(10, 4)>>, <<"B","o","b"," ","l","e","f","t">>) }

WordChats == { parseWhatsApp(lines) : lines \in SeqsUpTo(WordLines, MaxMessages) }

InitWords ==
    /\ DateIdle /\ LinesIdle /\ PipeIdle
    /\ \E chat \in WordChats :
            /\ mChat = <<chat>>
            /\ mOpts \in {<<o>> : o \in MetricOptions(chat)}
    /\ mIdx = 0
    /\ mAcc = <<MetricsStart>>
    /\ metrics = <<>>
    /\ timezoneOffsetMs = 0
    /\ EmojiIdle

SpecWords == InitWords /\ [][NextMetrics]_vars

RECURSIVE CountIn(_, _)
\* how often w is among the tokens
CountIn(tokens, w) ==
    IF tokens = <<>> THEN 0
    ELSE (IF Head(tokens) = w THEN 1 ELSE 0) + CountIn(Tail(tokens), w)

\* w is a component of the name of the sender of m
OwnName(m, w) == Truthy(m.from) /\ w \in nameParts(m.from)

RECURSIVE ForeignCount(_, _)
\* how often w is a word of a message whose sender does not bear it as a name
ForeignCount(messages, w) ==
    IF messages = <<>> THEN 0
    ELSE (IF OwnName(Head(messages), w) THEN 0
          ELSE CountIn(tokeniseWords(VisibleText(Head(messages)), Head(messages).isSystem), w))
         + ForeignCount(Tail(messages), w)

\* the messages the loop has been through
Measured == SubSeq(mChat[1].messages, 1, mIdx)

\* the property of C25 for the words that pass as allowed
OwnNameKeptOut(allowed) ==
    (mChat # <<>> /\ metrics # <<>>) =>
        /\ \A e \in Range(metrics[1].topWords) :
              e.word \notin allowed => e.count <= ForeignCount(Measured, e.word)
        /\ \A u \in Range(metrics[1].byUser) :
              \A e \in Range(u.topWords) :
                  e.word \notin allowed => e.word \notin nameParts(u.user)

\* C25: a token that is a component of the sender's own normalised,
\* lowercased name is counted neither in the global topWords nor in the
\* topWords of that sender, the words of EGYPTIAN_ARABIZI_ALLOW included.
C25_OwnNameNeverCounted == OwnNameKeptOut({})

\* what holds: the same for the tokens that are not in EGYPTIAN_ARABIZI_ALLOW
C25_OwnNameUnlessAllowed == OwnNameKeptOut(EGYPTIAN_ARABIZI_ALLOW)

\* a message of Bob with the word "bob" has been measured, and a word of it
\* is among the top words
C25_OwnNameSeen ==
    /\ mChat # <<>> /\ metrics # <<>>
    /\ \E i \in 1..Len(Measured) :
          /\ Measured[i].from = <<"B","o","b">>
          /\ CountIn(tokeniseWords(VisibleText(Measured[i]), FALSE), <<"b","o","b">>) > 0
    /\ \E e \in Range(metrics[1].topWords) : e.word = <<"s","a","i","d">>

----------------------------------------------------------------------------
(* replies per person and platform *)

\* a backup in which the owner of the phone writes first and the contact
\* answers a minute later
AndroidReply(contact) ==
    RawFile(".xml", <<"b","a","c","k","u","p">>, <<>>, <<>>,
            <<[sms |-> <<[date |-> 91000000, type |-> "2", contact_name |-> contact,
                          body |-> <<"y","o">>],
                         [date |-> 91060000, type |-> "1", contact_name |-> contact,
                          body |-> <<"h","i">>]>>,
               mms |-> <<>>]>>)

ReplyFiles ==
    {WhatsAppOne, WhatsAppTwo, InstagramBob, AndroidWith(Bob), AndroidReply(Bob)}

InitReplies ==
    /\ DateIdle /\ LinesIdle /\ MetricsIdle /\ OwnerIdle
    /\ files \in SeqsUpTo(ReplyFiles, MaxFiles) \ {<<>>}
    /\ pc = "parse"
    /\ fileIdx = 0
    /\ parsedChats = <<>>
    /\ parseErrors = {}
    /\ relatedGroups = <<>>
    /\ mergedChats = <<>>
    /\ rl = <<>>
    /\ nameMappings = <<>>
    /\ normalisedChats = <<>>
    /\ analysis = <<>>

SpecReplies == InitReplies /\ [][NextPipe]_vars

RECURSIVE StreamOf(_, _, _, _)
\* the messages of the chats of a platform the person takes part in
StreamOf(chats, platform, person, from) ==
    IF from > Len(chats) THEN <<>>
    ELSE (IF chats[from].platform = platform /\ person \in Range(chats[from].participants)
          THEN chats[from].messages ELSE <<>>)
         \o StreamOf(chats, platform, person, from + 1)

\* the places of the stream where person answers: the message before is of
\* a sender (when senderNeeded) other than person, is no system message, and
\* is at most 24 hours older
ReplyPlaces(stream, person, senderNeeded) ==
    {i \in 2..Len(stream) :
        /\ stream[i].from = person
        /\ senderNeeded => Truthy(stream[i - 1].from)
        /\ stream[i - 1].from # person
        /\ ~stream[i - 1].isSystem
        /\ stream[i].timestamp - stream[i - 1].timestamp >= 0
        /\ stream[i].timestamp - stream[i - 1].timestamp <= DayMs}

\* responseCount of every person and platform is the number of reply places
RepliesCounted(senderNeeded) ==
    pc = "analysed" =>
        \A p \in 1..Len(analysis[1].perPerson) :
            \A k \in 1..Len(analysis[1].perPerson[p].platforms) :
                LET person == analysis[1].perPerson[p].name
                    entry == analysis[1].perPerson[p].platforms[k]
                IN  entry.responseMetrics.responseCount =
                        Cardinality(ReplyPlaces(
                            SortByTimestamp(StreamOf(normalisedChats, entry.platform,
                                                     person, 1)),
                            person, senderNeeded))

\* C26: for a person and a platform a response is counted exactly when, in
\* the platform's messages sorted by time, a message of the person comes
\* straight after a message of another sender that is no system message and
\* at most 24 hours older; a message without sender in front counts for
\* nothing.
C26_RepliesToSenders == RepliesCounted(TRUE)

\* what holds: the same with a message without sender counting as one of
\* another sender
C26_RepliesToOthers == RepliesCounted(FALSE)

\* two replies of one person on one platform are counted
C26_ReplySeen ==
    /\ pc = "analysed"
    /\ \E p \in 1..Len(analysis[1].perPerson) :
          \E k \in 1..Len(analysis[1].perPerson[p].platforms) :
              analysis[1].perPerson[p].platforms[k].responseMetrics.responseCount >= 2

----------------------------------------------------------------------------
(* what the stages do to the chats they are given *)

\* the user turns the proposal down and types a name with two blanks in it
CopyAnswers == { <<>>, <<<<"y">>>>, <<<<"n">>, <<"B","o","b","b","y"," "," ","B">>>> }

CopyFiles == {WhatsAppOne, InstagramBobB, AndroidBob}

InitCopies ==
    /\ DateIdle /\ LinesIdle /\ MetricsIdle /\ OwnerIdle
    /\ files \in SeqsUpTo(CopyFiles, MaxFiles) \ {<<>>}
    /\ pc = "parse"
    /\ fileIdx = 0
    /\ parsedChats = <<>>
    /\ parseErrors = {}
    /\ relatedGroups = <<>>
    /\ mergedChats = <<>>
    /\ rl \in {<<>>} \cup { <<[answers |-> a, asked |-> 0]>> : a \in CopyAnswers }
    /\ nameMappings = <<>>
    /\ normalisedChats = <<>>
    /\ analysis = <<>>

SpecCopies == InitCopies /\ [][NextPipe]_vars

\* chat b is chat a but for the senders of its messages
SameButSenders(a, b) ==
    /\ b.participants = a.participants
    /\ b.platform = a.platform
    /\ b.title = a.title
    /\ Len(b.messages) = Len(a.messages)
    /\ \A j \in 1..Len(a.messages) :
          b.messages[j] = [a.messages[j] EXCEPT !.from = b.messages[j].from]

\* the step of a stage leaves the chats it was given as they were
StageKeepsInput ==
    /\ pc = "merged" => mergedChats' = mergedChats
    /\ pc = "resolved" => mergedChats' = mergedChats /\ normalisedChats' = normalisedChats

\* C27: computeMetrics, normaliseParticipantNames and
\* computeHierarchicalAnalysis leave every chat they are given as it was: its
\* participants and every field of its messages, the sender above all.
C27_CopyOnWrite == [][StageKeepsInput]_vars

\* what holds: normaliseParticipantNames leaves its input alone, and the
\* analysis changes nothing of its input but senders
C27_OnlySendersRewritten ==
    [][/\ pc = "merged" => mergedChats' = mergedChats
       /\ pc = "resolved" =>
            /\ mergedChats' = mergedChats
            /\ Len(normalisedChats') = Len(normalisedChats)
            /\ \A i \in 1..Len(normalisedChats) :
                  SameButSenders(normalisedChats[i], normalisedChats'[i])]_vars

\* the analysis has run over a chat with a sender of the name typed
C27_TypedNameAnalysed ==
    /\ pc = "analysed"
    /\ \E i \in 1..Len(normalisedChats) :
          <<"B","o","b","b","y"," "," ","B">> \in Range(normalisedChats[i].participants)

----------------------------------------------------------------------------
(* numeric character references in the bodies of a backup *)

\* the character of a code point
CodePointChar(n) ==
    CASE n = 58 -> ":"
      [] n = 8206 -> LRM
      [] n = 128557 -> EMOJI

\* a text with each reference &#N; replaced by the character of code point N
WithCodePoints(text) ==
    [i \in 1..Len(text) |->
        IF text[i] \in EntityTokens THEN CodePointChar(EntityNumber(text[i]))
        ELSE text[i]]

\* a backup has been parsed; its sms entries
BackupRead == Len(parsedChats) = 1 /\ parsedChats[1].platform = "android_messages"
SmsRead == files[1].smses[1].sms
MmsRead == files[1].smses[1].mms

\* the references below the limit are decoded to their characters
EntitiesDecoded(limit) ==
    BackupRead =>
        /\ \A i \in 1..Len(SmsRead) :
              (\A j \in 1..Len(SmsRead[i].body) :
                    SmsRead[i].body[j] \in EntityTokens
                        => EntityNumber(SmsRead[i].body[j]) < limit)
              => \E m \in Range(parsedChats[1].messages) :
                    /\ m.timestamp = SmsRead[i].date
                    /\ m.text = stripControlMarks(WithCodePoints(SmsRead[i].body))
        /\ \A i \in 1..Len(MmsRead) :
              \A p \in 1..Len(MmsRead[i].parts) :
                  LET part == MmsRead[i].parts[p]
                  IN  (part.ct = "text/plain" /\ Truthy(part.text) /\ part.chset = 106)
                        => \E m \in Range(parsedChats[1].messages) :
                              /\ m.timestamp = MmsRead[i].date
                              /\ m.text = stripControlMarks(WithCodePoints(part.text))

\* C28: every numeric reference &#N; in the body of an sms, and in the text
\* parts of charset 106 of an mms, is decoded to the one character of code
\* point N, also above 65535 as in &#128557;.
C28_EveryEntityDecoded == EntitiesDecoded(2000000)

\* what holds: the same for code points up to 65535
C28_BmpEntitiesDecoded == EntitiesDecoded(65536)

\* an sms with &#128557; and an mms with &#58; have been parsed
C28_EntitiesSeen ==
    /\ BackupRead
    /\ \E i \in 1..Len(SmsRead) : "&#128557;" \in Range(SmsRead[i].body)
    /\ \E i \in 1..Len(MmsRead) :
          \E p \in 1..Len(MmsRead[i].parts) :
              Truthy(MmsRead[i].parts[p].text) /\ "&#58;" \in Range(MmsRead[i].parts[p].text)

\* no target of a renaming is the source of another, a second application
\* of the mappings changes nothing, and no source of a renaming is left
MappingsDoNotChain ==
    /\ \A m1, m2 \in Renamings : m1.to # m2.from
    /\ [i \in 1..Len(normalisedChats) |-> ApplyMappings(normalisedChats[i], nameMappings)]
          = normalisedChats
    /\ \A m \in Renamings : m.from \notin NamesLeft(normalisedChats)

\* C29: in one pass a name that was source or target of an applied mapping
\* takes part in no further mapping: no target of a mapping is the source of
\* another mapping that renames, applying the mappings twice gives the chats
\* of applying them once, and no name mapped away is left as participant or
\* sender.
C29_MappingsDoNotChain == pc = "resolved" => MappingsDoNotChain

\* what holds: the same when at most one mapping renames
C29_SingleRenaming ==
    (pc = "resolved" /\ Cardinality(Renamings) <= 1) => MappingsDoNotChain

\* two renamings applied without a readline interface
C29_TwoRenamings ==
    pc = "resolved" /\ rl = <<>> /\ Cardinality(Renamings) = 2

----------------------------------------------------------------------------
(* the totals of a participant in the overview and in perPerson *)

Carol == <<"C","a","r","o","l">>

\* a group thread Carol has left: she is a sender but no longer among the
\* participants of the export
InstagramLeft ==
    RawFile(".json", <<"g","r","o","u","p">>, <<>>,
            <<[participants |-> <<Alice, Bob>>,
               messages |-> <<IgText(Carol, 94000000, <<"b","y","e"," ","a","l","l">>),
                              IgText(Bob, 94060000, <<"h","e","y">>)>>]>>,
            <<>>)
InstagramCarol == IgExport(<<"c","a","r","o","l">>, <<Carol, Alice>>, 95000000)

TotalFiles == {WhatsAppOne, InstagramBob, InstagramLeft, InstagramCarol, AndroidWith(Bob)}

InitTotals ==
    /\ DateIdle /\ LinesIdle /\ MetricsIdle /\ OwnerIdle
    /\ files \in SeqsUpTo(TotalFiles, MaxFiles) \ {<<>>}
    /\ pc = "parse"
    /\ fileIdx = 0
    /\ parsedChats = <<>>
    /\ parseErrors = {}
    /\ relatedGroups = <<>>
    /\ mergedChats = <<>>
    /\ rl = <<>>
    /\ nameMappings = <<>>
    /\ normalisedChats = <<>>
    /\ analysis = <<>>

SpecTotals == InitTotals /\ [][NextPipe]_vars

\* the four totals of an entry
FourTotals(entry) ==
    <<entry.totals.totalMessages, entry.totals.totalWords,
      entry.totals.totalCharacters, entry.totals.totalEmojis>>

\* the distinct participant names of the chats
ParticipantNames(chats) == UNION {Range(chats[i].participants) : i \in 1..Len(chats)}

\* each list has one entry for each participant name and no other
OneEntryEach ==
    LET over == analysis[1].overview.participants
        per == analysis[1].perPerson
    IN  /\ {over[p].name : p \in 1..Len(over)} = ParticipantNames(normalisedChats)
        /\ {per[p].name : p \in 1..Len(per)} = ParticipantNames(normalisedChats)
        /\ \A p, q \in 1..Len(over) : over[p].name = over[q].name => p = q
        /\ \A p, q \in 1..Len(per) : per[p].name = per[q].name => p = q

\* the entries of a name report the same totals
TotalsAgree ==
    \A p \in 1..Len(analysis[1].overview.participants) :
        \A q \in 1..Len(analysis[1].perPerson) :
            analysis[1].overview.participants[p].name = analysis[1].perPerson[q].name
                => FourTotals(analysis[1].overview.participants[p])
                     = FourTotals(analysis[1].perPerson[q])

\* every sender of a chat is among its participants
SendersAreParticipants ==
    \A i \in 1..Len(normalisedChats) :
        \A j \in 1..Len(normalisedChats[i].messages) :
            Truthy(normalisedChats[i].messages[j].from)
                => normalisedChats[i].messages[j].from
                        \in Range(normalisedChats[i].participants)

\* C30: for every participant the entry of overview.participants and the
\* entry of perPerson report the same totalMessages, totalWords,
\* totalCharacters and totalEmojis, and each list has exactly one entry per
\* distinct participant name of the chats.
C30_SameTotals == pc = "analysed" => (TotalsAgree /\ OneEntryEach)

\* what holds: one entry each, and the same totals when every sender of a
\* chat is among the participants of that chat
C30_SameTotalsOfMembers ==
    pc = "analysed" => (OneEntryEach /\ (SendersAreParticipants => TotalsAgree))

\* a participant of two chats has been analysed
C30_TwoChatsAnalysed ==
    /\ pc = "analysed" /\ Len(normalisedChats) >= 2 /\ SendersAreParticipants
    /\ \E n \in ParticipantNames(normalisedChats) :
          Cardinality(ChatsOf(normalisedChats, n)) >= 2
====
